---- MODULE Spec2Model ----
(***************************************************************************)
(* Request/response correlation and consumer orchestration of the Kafka    *)
(* teaching system: the CLI's ask_question / _listen_responses pair        *)
(* (src/cli.py), the MessageProducer router (src/src/producer.py), the     *)
(* AgentConsumer worker loop (src/src/consumer.py), BaseAgent              *)
(* (src/src/agents/base_agent.py) and the CostMonitor loop                 *)
(* (src/src/monitor.py).                                                   *)
(*                                                                         *)
(* Time is counted in whole seconds.  The asyncio tasks of the CLI run on  *)
(* one event loop, so the code between two awaits is one atomic action.    *)
(* Worker and monitor loops are threads; each statement group between two  *)
(* blocking calls is one action.                                           *)
(***************************************************************************)
EXTENDS Integers, Sequences, FiniteSets, TLC

(***************************************************************************)
(* Bounds of the model.                                                    *)
(***************************************************************************)
\* number of request identifiers uuid4 hands out in one run
MaxAsks == 2
\* ceiling of the clocks: a wait that is still running this long after it began
\* is no longer timed
MaxElapsed == 33
\* concurrent calls of ask_question begin at most this many seconds apart
MaxStagger == 1
\* capacity of a channel (messages published and not yet polled)
MaxChan == 1
\* requests a worker has received and not yet polled
MaxBacklog == 2
\* requests sent while a worker and the cost monitor are followed together
MaxLoopSends == 1
\* the cost events published and the statistics calls made in one run
MaxOps == 3
\* the length of the texts given to the router
MaxLen == 2
\* the consumer threads of one agent type that are alive besides the one followed
MaxStrays == 1

(***************************************************************************)
(* Program constants.                                                      *)
(***************************************************************************)
\* cli.py:259  timeout = 30
Timeout == 30
\* cli.py:281  asyncio.wait_for(..., timeout=1.0)
RecheckInterval == 1

\* concurrent callers of ask_question
Callers == {"caller_a", "caller_b"}
\* identifiers generated by this process
IssuedIds == 1..MaxAsks
\* a missing / empty message_id (None, "")
NoId == 0 - 1
\* an identifier generated by an earlier run, still on the responses topic
\* (the CLI's group reads the topic from 'earliest')
StaleId == NoId + 1
AllIds == IssuedIds \cup {StaleId}

\* models.py AgentType / config.py TOPICS (the two routing targets)
AgentTypes == {"chinese_teacher", "english_teacher"}
\* models.py LanguageType values a Message accepts
LanguageTypes == {"chinese", "english", "auto"}

VARIABLES
  topic,           \* request channels: [AgentTypes -> Seq(body)]
  respChan,        \* the "responses" topic: replies published, not yet polled by the CLI
  costChan,        \* the "cost_monitor" topic
  responses,       \* cli.responses: message_id -> response_data
  response_event,  \* cli.response_event (asyncio.Event flag)
  ask,             \* per caller: position inside ask_question
  nextId,          \* uuid4 supply
  listener_pc,     \* _listen_responses task: "poll" | "backoff" | "none"
  received,        \* history: the response_data the listener has stored so far
  delivered,       \* history: ids whose Reply an ask_question call has returned
  expired,         \* history: ids whose ask_question call returned the timeout result
  running,         \* AgentConsumer.running, per agent type
  wpc,             \* position of the consumer thread in _consume_loop
  stopping,        \* stop() is waiting in thread.join
  batch,           \* messages of the polled message_pack not yet processed
  work,            \* the message being processed and the Response built for it
  producer,        \* AgentConsumer.kafka_client.producer is open
  consumer,        \* the worker's KafkaConsumer: "none" | "open" | "closing" | "closed"
  polled,          \* history: the bodies each worker received, in order
  finished,        \* history: how many of them each worker is through with
  publog,          \* history: every kafka_client.send_message call of the workers
  llmlog,          \* history: message_id -> how the answer generation ended
  mon_running,     \* CostMonitor.running
  mon_pc,          \* position of the monitor thread in _monitor_loop
  mon_stopping,    \* CostMonitor.stop() is waiting in thread.join
  mon_consumer,    \* the monitor's KafkaConsumer: "none" | "open" | "closed"
  mon_batch,       \* cost events of the polled message_pack not yet processed
  total_cost,      \* CostMonitor.total_cost
  cost_by_agent,   \* CostMonitor.cost_by_agent
  cost_by_model,   \* CostMonitor.cost_by_model
  message_count,   \* CostMonitor.message_count
  scl,             \* per worker: where stop() is inside close_all ("idle" outside)
  consumers,       \* ConsumerManager.consumers: the registered keys, in dict order
  mgr_pc,          \* the manager call in progress: "idle" | "stop_all"
  mgr_todo,        \* stop_all: the consumers its for loop has not finished with
  mgr_last,        \* history: the last manager call that ended, and how
  mon_tmp,         \* monitor thread: the value loaded by the += in progress
  evlog,           \* history: the cost events _process_cost_info was entered with
  api_pc,          \* the thread calling reset_statistics / get_statistics
  stats,           \* the dict of the last get_statistics, held until the next call
  api_last,        \* history: the calls of that thread that have returned, in order
  cli_down,        \* TeachingSystemCLI.shutdown() has run
  shut_at,         \* history: how long each call of ask_question had waited by then
  sent,            \* the last direct call of send_message: its text, the detector,
                   \* the language it found, what it published and the dict returned
  closes,          \* history, per worker: the close() calls on its current
                   \* KafkaConsumer and whether a close_all of its client raised
  strays           \* per agent type: live consumer threads the model does not follow

histVars == <<received, delivered, expired>>
shutVars == <<cli_down, shut_at>>
cliVars == <<responses, response_event, ask, nextId, listener_pc, received,
             delivered, expired, cli_down, shut_at, sent>>
chanVars == <<topic, respChan, costChan>>
workerVars == <<running, wpc, stopping, batch, work, producer, consumer, polled,
                finished, publog, llmlog, closes, strays>>
statVars == <<total_cost, cost_by_agent, cost_by_model, message_count>>
mgrVars == <<scl, consumers, mgr_pc, mgr_todo, mgr_last>>
procVars == <<mon_tmp, evlog>>
apiVars == <<api_pc, stats, api_last>>
monitorVars == <<mon_running, mon_pc, mon_stopping, mon_consumer, mon_batch,
                 total_cost, cost_by_agent, cost_by_model, message_count,
                 mon_tmp, evlog, api_pc, stats, api_last>>
vars == <<topic, respChan, costChan, responses, response_event, ask, nextId,
          listener_pc, received, delivered, expired, running, wpc, stopping,
          batch, work, producer, consumer, polled, finished, publog, llmlog,
          mon_running, mon_pc, mon_stopping, mon_consumer, mon_batch, total_cost,
          cost_by_agent, cost_by_model, message_count, scl,
          consumers, mgr_pc, mgr_todo, mgr_last, mon_tmp, evlog, api_pc, stats,
          api_last, cli_down, shut_at, sent, closes, strays>>

(***************************************************************************)
(* Router (producer.py).  A text is a sequence of code points.             *)
(***************************************************************************)
Texts == { <<72, 105>>, <<20320, 22909>>, <<72, 22909>> }
\* an ASCII letter and the code points on both sides of the two ends of the
\* range U+4E00..U+9FFF
Alphabet == {72, 19967, 19968, 40959, 40960}
\* every text of at most MaxLen of these code points
AllTexts == UNION {[1..n -> Alphabet] : n \in 0..MaxLen}
\* what langdetect.detect does on a call: a language code, or raising;
\* "unavailable" is LANGDETECT_AVAILABLE = False
DetectorOutcomes == {"unavailable", "raise", "zh-cn", "zh-tw", "zh", "en"}

\* the two ends of the range are left out
InRangeOpen(char) == 19968 < char /\ char < 40959
\* producer.py:71  '\u4e00' <= char <= '\u9fff'
InRange(char) == 19968 <= char /\ char <= 40959

RECURSIVE _contains_chinese(_)
_contains_chinese(text) ==
  IF text = <<>> THEN FALSE
  ELSE IF InRange(Head(text)) THEN TRUE
  ELSE _contains_chinese(Tail(text))

\* the answer of the detector alone decides
detect_by_detector(text, det) == IF det = "en" THEN "english" ELSE "chinese"

detect_language(text, det) ==
  IF det = "raise"
    THEN (IF _contains_chinese(text) THEN "chinese" ELSE "english")
  ELSE IF det # "unavailable" /\ det \in {"zh-cn", "zh-tw", "zh"}
    THEN "chinese"
  ELSE IF _contains_chinese(text) THEN "chinese"
  ELSE "english"

\* every request goes to the English topic
route_to_english(language) == "english_teacher"
\* producer.py:75-88
route_to_topic(language) ==
  IF language = "chinese" THEN "chinese_teacher" ELSE "english_teacher"

(***************************************************************************)
(* Results of ask_question.  A response_data is the dict of a Response     *)
(* (models.py); the two failure results are the literal dicts of cli.py.   *)
(***************************************************************************)
Reply(id, ok, agent, text, cost) ==
  [message_id |-> id, success |-> ok, agent_type |-> agent, content |-> text,
   cost_info |-> cost]

\* config.py:27  the name of the engine both agents share (cli.py:130-131)
EngineName == "gemini-1.5-flash"

\* gemini_engine.py:80-93  calculate_cost, in units of the input price of one
\* token (config.py:28-29: an output token costs three times an input token)
calculate_cost(input_tokens, output_tokens) ==
  input_tokens * 1 + output_tokens * 3

\* base_engine.py:60-80
create_cost_info(input_tokens, output_tokens) ==
  [total_tokens |-> input_tokens + output_tokens,
   cost_usd |-> calculate_cost(input_tokens, output_tokens),
   model_name |-> EngineName]

\* "cost_info": None in the CLI's own results
NoCost == [total_tokens |-> 0, cost_usd |-> 0, model_name |-> "none"]

TimedOut == Reply(NoId, FALSE, "none", "Response timeout", NoCost)
SendFailed == Reply(NoId, FALSE, "none", "Send failed", NoCost)
NoResult == Reply(NoId, FALSE, "none", "", NoCost)

\* a request body as it travels on a topic: the dict of a Message (models.py:21-39)
Body(id, text, language) ==
  [message_id |-> id, content |-> text, language |-> language]
\* a key the body does not carry
Missing == "<missing>"
\* the same for the text of the request
NoContent == <<0 - 1>>
NoBody == Body(NoId, NoContent, Missing)

\* producer.py:109-125  the Message built for a text and what is handed to
\* kafka_client.send_message: topic, key and value
Publication(content, det, id) ==
  LET language == detect_language(content, det)
  IN [topic |-> route_to_topic(language), key |-> id,
      value |-> Body(id, content, language)]
NoPublication == [topic |-> "none", key |-> NoId, value |-> NoBody]

\* kafka_client.py:95-115  how kafka_client.send_message of the producer ends
ProducerOutcomes == {"sent", "create_failed", "send_failed"}

\* the failure dict keeps the id that was generated
SendFailureWithId(id, error) ==
  [success |-> FALSE, message_id |-> id, topic |-> "none", language |-> "none",
   error |-> error]
\* producer.py:137-145  except Exception: the failure dict
SendFailure(id, error) ==
  [success |-> FALSE, message_id |-> NoId, topic |-> "none", language |-> "none",
   error |-> error]

\* producer.py:90-145  the dict send_message returns
send_message(content, det, id, outcome) ==
  IF outcome = "sent"
    THEN [success |-> TRUE, message_id |-> id,
          topic |-> Publication(content, det, id).topic,
          language |-> Publication(content, det, id).value.language,
          error |-> "none"]
    ELSE SendFailure(id, outcome)

\* no close() on the consumer of a worker and no close_all has raised
NoCloses == [consumer |-> 0, raised |-> FALSE]

\* no direct call of send_message yet
NoSend == [content |-> <<>>, det |-> "none", language |-> "none",
           record |-> NoPublication,
           result |-> SendFailure(NoId, "none")]
NoWork == [message |-> NoBody, response |-> NoResult]

\* no call of ask_question was waiting
NotWaiting == 0 - 1

IdleAsk == [pc |-> "idle", message_id |-> NoId, elapsed |-> 0, waited |-> 0,
            result |-> NoResult]

\* dict operations on cli.responses
DictPut(d, k, v) == [x \in DOMAIN d \cup {k} |-> IF x = k THEN v ELSE d[x]]
\* the entry is read but left in the dict
DictKeep(d, k) == d
DictPop(d, k) == [x \in DOMAIN d \ {k} |-> d[x]]
EmptyDict == [x \in {} |-> NoResult]

\* monitor.py:140-147  the dict of get_statistics (without its timestamp); the
\* average is kept as the two operands of its division
Statistics(total, count, avg_total, avg_count, by_agent, by_model) ==
  [total_cost |-> total, total_messages |-> count,
   average_cost_per_message |-> <<avg_total, avg_count>>,
   cost_by_agent |-> by_agent, cost_by_model |-> by_model]
NoStats == Statistics(0, 0, 0, 1, EmptyDict, EmptyDict)

Init ==
  /\ topic = [t \in AgentTypes |-> <<>>]
  /\ respChan = <<>>
  /\ costChan = <<>>
  /\ responses = EmptyDict
  /\ response_event = FALSE
  /\ ask = [c \in Callers |-> IdleAsk]
  /\ nextId = 1
  \* _setup_response_listener only logs a failure to create the consumer
  \* (cli.py:178-179): the system then runs without a listener
  /\ listener_pc \in {"poll", "none"}
  /\ received = {}
  /\ delivered = {}
  /\ expired = {}
  /\ running = [w \in AgentTypes |-> FALSE]
  /\ wpc = [w \in AgentTypes |-> "none"]
  /\ stopping = [w \in AgentTypes |-> FALSE]
  /\ batch = [w \in AgentTypes |-> <<>>]
  /\ work = [w \in AgentTypes |-> NoWork]
  /\ producer = [w \in AgentTypes |-> FALSE]
  /\ consumer = [w \in AgentTypes |-> "none"]
  /\ polled = [w \in AgentTypes |-> <<>>]
  /\ finished = [w \in AgentTypes |-> 0]
  /\ publog = <<>>
  /\ llmlog = [id \in IssuedIds |-> "none"]
  /\ mon_running = FALSE
  /\ mon_pc = "none"
  /\ mon_stopping = FALSE
  /\ mon_consumer = "none"
  /\ mon_batch = <<>>
  /\ total_cost = 0
  /\ cost_by_agent = EmptyDict
  /\ cost_by_model = EmptyDict
  /\ message_count = 0
  /\ scl = [w \in AgentTypes |-> "idle"]
  /\ consumers = <<>>
  /\ mgr_pc = "idle"
  /\ mgr_todo = <<>>
  /\ mgr_last = "none"
  /\ mon_tmp = 0
  /\ evlog = <<>>
  /\ api_pc = "idle"
  /\ stats = NoStats
  /\ api_last = <<>>
  /\ cli_down = FALSE
  /\ shut_at = [c \in Callers |-> NotWaiting]
  /\ sent = NoSend
  /\ closes = [w \in AgentTypes |-> NoCloses]
  /\ strays = [w \in AgentTypes |-> 0]

(***************************************************************************)
(* ask_question (cli.py:235-298).                                          *)
(***************************************************************************)
\* gives up as soon as the timeout is reached
TimeoutExpiredEarly(el) == el >= Timeout
\* cli.py:270  time() - start_time > timeout
TimeoutExpired(el) == el > Timeout

\* a wait twice as long between two checks
WaitExpiredLate(w) == w >= RecheckInterval + RecheckInterval
\* cli.py:281  the wait_for timer has run out
WaitExpired(w) == w >= RecheckInterval

\* takes whatever response is in the table
LookupAnyKey(id) ==
  IF DOMAIN responses = {} THEN id ELSE CHOOSE k \in DOMAIN responses : TRUE
\* cli.py:264-265  the key looked up and popped for the request message_id
LookupKey(id) == id

\* one pass of the while-loop body, cli.py:262-284, entered with the
\* request id and the time elapsed since start_time; a call that returns the
\* timeout result keeps the time at which it gave up
AskLoopBody(c, id, el) ==
  IF LookupKey(id) \in DOMAIN responses
    THEN /\ ask' = [ask EXCEPT ![c] = [pc |-> "done", message_id |-> id,
                      elapsed |-> 0, waited |-> 0,
                      result |-> responses[LookupKey(id)]]]
         /\ responses' = DictPop(responses, LookupKey(id))
         /\ delivered' = delivered \cup {id}
         /\ UNCHANGED <<response_event, expired>>
  ELSE IF TimeoutExpired(el)
    THEN /\ ask' = [ask EXCEPT ![c] = [pc |-> "done", message_id |-> id,
                      elapsed |-> el, waited |-> 0, result |-> TimedOut]]
         /\ expired' = expired \cup {id}
         /\ UNCHANGED <<responses, response_event, delivered>>
  ELSE /\ ask' = [ask EXCEPT ![c] = [pc |-> "waiting", message_id |-> id,
                      elapsed |-> el, waited |-> 0, result |-> NoResult]]
       /\ response_event' = FALSE
       /\ UNCHANGED <<responses, delivered, expired>>

\* producer.send_message succeeded: the request is on its topic (producer.py:101-135),
\* then the first pass of the loop runs without yielding to the event loop
AskStart(c) ==
  /\ ask[c].pc = "idle"
  /\ nextId <= MaxAsks
  /\ \E text \in Texts, det \in DetectorOutcomes :
       LET language == detect_language(text, det)
           target == route_to_topic(language)
       IN /\ Len(topic[target]) < MaxChan
          /\ topic' = [topic EXCEPT ![target] =
                         Append(@, Publication(text, det, nextId).value)]
  /\ nextId' = nextId + 1
  /\ AskLoopBody(c, nextId, 0)
  /\ UNCHANGED <<respChan, costChan, listener_pc, received, shutVars, sent,
                 workerVars, monitorVars, mgrVars>>

\* producer.send_message caught an exception (producer.py:137-145): cli.py:249-254
AskSendFailed(c) ==
  /\ ask[c].pc = "idle"
  /\ ask' = [ask EXCEPT ![c] = [IdleAsk EXCEPT !.pc = "done", !.result = SendFailed]]
  /\ UNCHANGED <<chanVars, responses, response_event, nextId, listener_pc, histVars, shutVars, sent,
                 workerVars, monitorVars, mgrVars>>

\* the wait_for timer fires: asyncio.TimeoutError, continue (cli.py:282-284)
AskWaitTimeout(c) ==
  /\ ask[c].pc = "waiting"
  /\ WaitExpired(ask[c].waited)
  /\ ask' = [ask EXCEPT ![c].pc = "ready"]
  /\ UNCHANGED <<chanVars, responses, response_event, nextId, listener_pc, histVars, shutVars, sent,
                 workerVars, monitorVars, mgrVars>>

\* the woken task runs the next pass of the loop
AskResume(c) ==
  /\ ask[c].pc = "ready"
  /\ AskLoopBody(c, ask[c].message_id, ask[c].elapsed)
  /\ UNCHANGED <<chanVars, nextId, listener_pc, received, shutVars, sent,
                 workerVars, monitorVars, mgrVars>>

\* ask_question has returned its result to run_interactive_mode (cli.py:386-389)
AskReturn(c) ==
  /\ ask[c].pc = "done"
  /\ ask' = [ask EXCEPT ![c] = IdleAsk]
  /\ UNCHANGED <<chanVars, responses, response_event, nextId, listener_pc, histVars, shutVars, sent,
                 workerVars, monitorVars, mgrVars>>

\* One second passes.  A task that is ready to run, or whose timer has run out,
\* runs before a whole second has gone by.
Tick ==
  /\ \E c \in Callers : ask[c].pc = "waiting"
  /\ \A c \in Callers :
       /\ ask[c].pc # "ready"
       /\ ask[c].pc = "waiting" =>
            ~WaitExpired(ask[c].waited) /\ ask[c].elapsed < MaxElapsed
  /\ ask' = [c \in Callers |->
               IF ask[c].pc = "waiting"
                 THEN [ask[c] EXCEPT !.elapsed = @ + 1, !.waited = @ + 1]
                 ELSE ask[c]]
  /\ UNCHANGED <<chanVars, responses, response_event, nextId, listener_pc, histVars, shutVars, sent,
                 workerVars, monitorVars, mgrVars>>

(***************************************************************************)
(* _listen_responses (cli.py:181-209).                                     *)
(***************************************************************************)
\* cli.py:202  if message_id:
Truthy(id) == id # NoId

\* cli.py:204  the key a response_data is stored under
StoreKey(response_data) == response_data.message_id

\* cli.py:197-205  the nested for-loops over one message_pack
RECURSIVE StoreAll(_, _)
StoreAll(d, pack) ==
  IF pack = <<>> THEN d
  ELSE LET response_data == Head(pack)
       IN IF Truthy(response_data.message_id)
            THEN StoreAll(DictPut(d, StoreKey(response_data), response_data), Tail(pack))
            ELSE StoreAll(d, Tail(pack))

Stored(pack) ==
  {pack[i] : i \in {j \in 1..Len(pack) : Truthy(pack[j].message_id)}}

\* the signal wakes one of the tasks blocked in wait()
WakesOne(c) ==
  ask[c].pc = "waiting" /\ c = CHOOSE d \in Callers : ask[d].pc = "waiting"
\* cli.py:205, 281  response_event.set() wakes every task blocked in wait()
Wakes(c) == ask[c].pc = "waiting"

\* a poll returned the first n messages of the channel; the loop body runs to
\* its end without an await
ListenerPoll ==
  /\ listener_pc = "poll"
  \* the consumer is open: shutdown closes it (kafka_client.py:138-145)
  /\ ~cli_down
  /\ \E n \in 1..Len(respChan) :
       LET pack == SubSeq(respChan, 1, n)
           signalled == Stored(pack) # {}
       IN /\ respChan' = SubSeq(respChan, n + 1, Len(respChan))
          /\ responses' = StoreAll(responses, pack)
          /\ received' = received \cup Stored(pack)
          /\ response_event' = (response_event \/ signalled)
          \* Event.set() wakes every task blocked in wait()
          /\ ask' = [c \in Callers |->
                       IF signalled /\ ~response_event /\ Wakes(c)
                         THEN [ask[c] EXCEPT !.pc = "ready"]
                         ELSE ask[c]]
  /\ UNCHANGED <<topic, costChan, nextId, listener_pc, delivered, expired, shutVars, sent,
                 workerVars, monitorVars, mgrVars>>

\* consumer.poll raised: logged, await asyncio.sleep(1) (cli.py:207-209)
ListenerPollError ==
  /\ listener_pc = "poll"
  /\ listener_pc' = "backoff"
  /\ UNCHANGED <<chanVars, responses, response_event, ask, nextId, histVars, shutVars, sent,
                 workerVars, monitorVars, mgrVars>>

ListenerRetry ==
  /\ listener_pc = "backoff"
  /\ listener_pc' = "poll"
  /\ UNCHANGED <<chanVars, responses, response_event, ask, nextId, histVars, shutVars, sent,
                 workerVars, monitorVars, mgrVars>>

(***************************************************************************)
(* BaseAgent.process_message (base_agent.py:32-82).  The answer generator  *)
(* returns a text, reports a failure, or raises.                           *)
(***************************************************************************)
LlmOutcomes == {"ok", "fail", "raise"}

\* gemini_engine.py:41-78 / ollama_engine.py:52-104  generate_response
generate_response(outcome) ==
  IF outcome = "ok"
    THEN [success |-> TRUE, content |-> "answer", cost_info |-> create_cost_info(1, 1)]
    ELSE [success |-> FALSE, content |-> "", cost_info |-> create_cost_info(0, 0)]

\* the error response charges the tokens of a call
ErrorResponseCharged(message, agent_type) ==
  Reply(message.message_id, FALSE, agent_type, "System error", create_cost_info(1, 1))
\* base_agent.py:72-82  the error response of the except branch
ErrorResponse(message, agent_type) ==
  Reply(message.message_id, FALSE, agent_type, "System error", create_cost_info(0, 0))

\* every Response names the English agent
process_as_english(message, agent_type, outcome) ==
  Reply(message.message_id, outcome = "ok", "english_teacher", "answer",
        create_cost_info(1, 1))
\* base_agent.py:32-82
process_message(message, agent_type, outcome) ==
  IF outcome = "raise"
    THEN ErrorResponse(message, agent_type)
    ELSE LET llm_response == generate_response(outcome)
         IN Reply(message.message_id, llm_response.success, agent_type,
                  IF llm_response.success THEN llm_response.content
                                          ELSE "Processing failed",
                  llm_response.cost_info)

(***************************************************************************)
(* The far side of the bus, as the CLI sees it: a worker takes a request   *)
(* off its topic and publishes at most one Response for it                 *)
(* (consumer.py:100-139); the responses topic also carries replies of      *)
(* earlier runs and of other producers.                                    *)
(***************************************************************************)
\* the Response a worker builds for a request it can answer
Answer(request, t) == process_message(request, t, "ok")

WorkerAnswers(t) ==
  /\ topic[t] # <<>>
  /\ topic' = [topic EXCEPT ![t] = Tail(@)]
  /\ \/ /\ Len(respChan) < MaxChan
        /\ respChan' = Append(respChan, Answer(Head(topic[t]), t))
     \/ UNCHANGED respChan
  /\ UNCHANGED <<costChan, cliVars, workerVars, monitorVars, mgrVars>>

ForeignReply ==
  /\ Len(respChan) < MaxChan
  /\ \E id \in {StaleId, NoId} :
       respChan' = Append(respChan, Reply(id, TRUE, "english_teacher", "answer",
                                   create_cost_info(1, 1)))
  /\ UNCHANGED <<topic, costChan, cliVars, workerVars, monitorVars, mgrVars>>

\* the interactive console: one caller, one question after the other
\* (cli.py:368-389)
Console == "caller_a"

NextAsk ==
  \/ AskStart(Console)
  \/ AskSendFailed(Console)
  \/ AskWaitTimeout(Console)
  \/ AskResume(Console)
  \/ AskReturn(Console)
  \/ Tick
  \/ ListenerPoll
  \/ ListenerPollError
  \/ ListenerRetry
  \/ \E t \in AgentTypes : WorkerAnswers(t)
  \/ ForeignReply

SpecAsk == Init /\ [][NextAsk]_vars

\* every worker was stopped before it polled: requests stay on their topics
NextWorkersStopped ==
  \/ AskStart(Console)
  \/ AskSendFailed(Console)
  \/ AskWaitTimeout(Console)
  \/ AskResume(Console)
  \/ AskReturn(Console)
  \/ Tick
  \/ ListenerPoll
  \/ ListenerPollError
  \/ ListenerRetry
  \/ ForeignReply

\* the event loop runs every task that is ready, timers fire, and time passes
\* (no infinite run of steps within one second)
FairSpecWorkersStopped ==
  /\ Init
  /\ [][NextWorkersStopped]_vars
  /\ SF_vars(Tick)
  /\ WF_vars(AskWaitTimeout(Console))
  /\ WF_vars(AskResume(Console))

\* several tasks inside ask_question at once, one question each, started at
\* most MaxStagger seconds apart
Staggered(c) ==
  \A d \in Callers \ {c} : ask[d].pc = "idle" \/ ask[d].elapsed <= MaxStagger

NextConcurrent ==
  \/ \E c \in Callers : Staggered(c) /\ AskStart(c)
  \/ \E c \in Callers : AskSendFailed(c)
  \/ \E c \in Callers : AskWaitTimeout(c)
  \/ \E c \in Callers : AskResume(c)
  \/ Tick
  \/ ListenerPoll
  \/ ListenerPollError
  \/ ListenerRetry
  \/ \E t \in AgentTypes : WorkerAnswers(t)
  \/ ForeignReply

SpecConcurrent == Init /\ [][NextConcurrent]_vars

(***************************************************************************)
(* KafkaClient of one worker (kafka_client.py).                            *)
(***************************************************************************)
\* kafka_client.py:95-115  send_message: create_producer, send, flush.
\* "sent", or an exception of create_producer or of send/flush
SendOutcomes(w) ==
  {"sent", "send_failed"} \cup (IF producer[w] THEN {} ELSE {"create_failed"})

\* kafka_client.py:39-60  the producer exists after the call unless creating it failed
ProducerAfter(w, outcome) == outcome # "create_failed"

(***************************************************************************)
(* AgentConsumer (consumer.py:12-163).                                     *)
(***************************************************************************)
\* consumer.py:109  Message(**message_data): every field present and valid
ParseOk(body) ==
  /\ body.message_id # NoId
  /\ body.content # NoContent
  /\ body.language \in LanguageTypes

\* where the thread goes once it is through with a message (consumer.py:79-80)
NextPc(rest) == IF rest = <<>> THEN "loop" ELSE "batch"

\* the except branch of the loop leaves the loop
AfterPollErrorExit(run) == "fatal"
\* consumer.py:89-93 / monitor.py:87-91  except Exception: log, sleep(1) if running
AfterPollError(run) == IF run THEN "backoff" ELSE "loop"

\* consumer.py:149-154  the telemetry event derived from a Response
cost_data(response) ==
  [message_id |-> response.message_id, agent_type |-> response.agent_type,
   cost_info |-> response.cost_info]

LogEntry(w, t, message, outcome) ==
  [by |-> w, topic |-> t, message |-> message, ok |-> (outcome = "sent")]

\* start() never takes the early return
NeverRunning(flag) == FALSE
\* consumer.py:34-36 / monitor.py:38-40  if self.running: log a warning, return
AlreadyRunning(flag) == flag

\* consumer.py:28-41  start(), called once the previous thread, if any, has ended
Start(w) ==
  /\ ~AlreadyRunning(running[w])
  /\ ~stopping[w]
  /\ wpc[w] \in {"none", "exited"}
  /\ running' = [running EXCEPT ![w] = TRUE]
  /\ wpc' = [wpc EXCEPT ![w] = "create"]
  /\ UNCHANGED <<chanVars, cliVars, monitorVars, mgrVars, stopping, batch, work, producer, consumer,
                 polled, finished, publog, llmlog, closes, strays>>

\* consumer.py:49-51  stop(): the flag is cleared and the caller joins the thread
StopBegin(w) ==
  /\ ~stopping[w]
  /\ running[w] \/ wpc[w] \notin {"none", "exited"}
  /\ running' = [running EXCEPT ![w] = FALSE]
  /\ stopping' = [stopping EXCEPT ![w] = TRUE]
  /\ UNCHANGED <<chanVars, cliVars, monitorVars, scl, consumers, mgr_pc, mgr_todo, mgr_last,
                 wpc, batch, work, producer, consumer, polled,
                 finished, publog, llmlog, closes, strays>>

\* the thread is inside the processing of a batch, which may outlast the
\* 5 seconds of join(timeout=5)
JoinMayTimeOut(w) == wpc[w] \in {"batch", "llm", "send_resp", "send_cost"}

(***************************************************************************)
(* KafkaClient.close_all (kafka_client.py:117-145), step by step: stop()   *)
(* and the finally block of the thread may both be inside it.  A position  *)
(* is "prod_check" (if self.producer), "prod_close" (self.producer.close();*)
(* self.producer = None), "cons_close" (if group_id in self.consumers:     *)
(* self.consumers[group_id].close()) or "cons_del" (del                    *)
(* self.consumers[group_id]).                                              *)
(***************************************************************************)
\* group_id in self.kafka_client.consumers
InDict(w) == consumer[w] \in {"open", "closing"}

\* the thread of w has ended or was never started
ThreadGone(w) == wpc[w] \in {"none", "exited"}

\* where close_all is after the step at pos: the next position, "done", or
\* "raised" (self.producer is None by now: AttributeError; the entry is
\* deleted by now: KeyError)
CloseNext(w, pos) ==
  IF pos = "prod_check" THEN (IF producer[w] THEN "prod_close" ELSE "cons_close")
  ELSE IF pos = "prod_close" THEN (IF producer[w] THEN "cons_close" ELSE "raised")
  ELSE IF pos = "cons_close" THEN (IF InDict(w) THEN "cons_del" ELSE "done")
  ELSE (IF InDict(w) THEN "done" ELSE "raised")

\* kafka_client.py:121-124  the producer after the step at pos
CloseProducer(w, pos) == IF pos = "prod_close" THEN FALSE ELSE producer[w]

\* kafka_client.py:133-136  the consumer after the step at pos; gone says
\* that no thread holds the handle any more
CloseConsumer(w, pos, gone) ==
  IF pos = "cons_close" /\ InDict(w) THEN "closing"
  ELSE IF pos = "cons_del" /\ InDict(w) THEN (IF gone THEN "none" ELSE "closed")
  ELSE consumer[w]

\* kafka_client.py:133-134, 143-145  the history of the closes after the step
\* at pos: one more close() on the KafkaConsumer still in the dict; an
\* exception of close_all is remembered
ClosesAfter(w, pos) ==
  [consumer |-> IF pos = "cons_close" /\ InDict(w)
                  THEN closes[w].consumer + 1 ELSE closes[w].consumer,
   raised   |-> closes[w].raised \/ CloseNext(w, pos) = "raised"]

\* stop() is over: it returned or raised.  stop_all goes on with the next
\* consumer of its for loop, or ends: after the last one, or with the
\* exception of stop() (consumer.py:201-209)
StopReturns(w, result) ==
  /\ stopping' = [stopping EXCEPT ![w] = FALSE]
  /\ scl' = [scl EXCEPT ![w] = "idle"]
  /\ IF mgr_pc = "stop_all" /\ mgr_todo # <<>> /\ Head(mgr_todo) = w
       THEN IF result = "raised"
              THEN /\ mgr_pc' = "idle"
                   /\ mgr_todo' = <<>>
                   /\ mgr_last' = "stop_all_raised"
              ELSE /\ mgr_todo' = Tail(mgr_todo)
                   /\ mgr_pc' = IF Tail(mgr_todo) = <<>> THEN "idle" ELSE "stop_all"
                   /\ mgr_last' = IF Tail(mgr_todo) = <<>> THEN "stop_all" ELSE mgr_last
       ELSE UNCHANGED <<mgr_pc, mgr_todo, mgr_last>>

\* consumer.py:50-51  join returned: the thread ended, or the 5 seconds are over
StopJoined(w) ==
  /\ stopping[w]
  /\ scl[w] = "idle"
  /\ ThreadGone(w) \/ JoinMayTimeOut(w)
  /\ scl' = [scl EXCEPT ![w] = "prod_check"]
  /\ UNCHANGED <<chanVars, cliVars, monitorVars, workerVars,
                 consumers, mgr_pc, mgr_todo, mgr_last>>

\* consumer.py:52-53  one step of close_all inside stop()
StopClose(w) ==
  /\ stopping[w]
  /\ scl[w] # "idle"
  /\ producer' = [producer EXCEPT ![w] = CloseProducer(w, scl[w])]
  /\ consumer' = [consumer EXCEPT ![w] = CloseConsumer(w, scl[w], ThreadGone(w))]
  /\ closes' = [closes EXCEPT ![w] = ClosesAfter(w, scl[w])]
  /\ IF CloseNext(w, scl[w]) \in {"done", "raised"}
       THEN StopReturns(w, IF CloseNext(w, scl[w]) = "done" THEN "returned" ELSE "raised")
       ELSE /\ scl' = [scl EXCEPT ![w] = CloseNext(w, scl[w])]
            /\ UNCHANGED <<stopping, mgr_pc, mgr_todo, mgr_last>>
  /\ UNCHANGED <<chanVars, cliVars, monitorVars, running, wpc, batch, work, polled,
                 finished, publog, llmlog, strays, consumers>>

\* consumer.py:61-66, 95-98  create_consumer; a failure is fatal for the thread
WCreate(w) ==
  /\ wpc[w] = "create"
  /\ \/ /\ consumer' = [consumer EXCEPT ![w] = "open"]
        /\ closes' = [closes EXCEPT ![w] = NoCloses]
        /\ wpc' = [wpc EXCEPT ![w] = "loop"]
     \/ /\ consumer' = consumer
        /\ closes' = closes
        /\ wpc' = [wpc EXCEPT ![w] = "fatal"]
  /\ UNCHANGED <<chanVars, cliVars, monitorVars, mgrVars, running, stopping, batch, work, producer,
                 polled, finished, publog, llmlog, strays>>

\* consumer.py:70  while self.running
WLoopCheck(w) ==
  /\ wpc[w] = "loop"
  /\ wpc' = [wpc EXCEPT ![w] = IF running[w] THEN "poll" ELSE "fatal"]
  /\ UNCHANGED <<chanVars, cliVars, monitorVars, mgrVars, running, stopping, batch, work, producer,
                 consumer, polled, finished, publog, llmlog, closes, strays>>

\* the position of the thread inside the close_all of its finally block
FinallyPos(w) == IF wpc[w] = "fatal" THEN "prod_check" ELSE wpc[w]

\* consumer.py:97-98  finally: self.kafka_client.close_all(), one step of it;
\* after the last step, or with its exception, the thread ends
WExit(w) ==
  /\ wpc[w] \in {"fatal", "prod_close", "cons_close", "cons_del"}
  /\ producer' = [producer EXCEPT ![w] = CloseProducer(w, FinallyPos(w))]
  /\ closes' = [closes EXCEPT ![w] = ClosesAfter(w, FinallyPos(w))]
  /\ IF CloseNext(w, FinallyPos(w)) \in {"done", "raised"}
       THEN /\ wpc' = [wpc EXCEPT ![w] = "exited"]
            /\ consumer' = [consumer EXCEPT ![w] =
                 IF CloseConsumer(w, FinallyPos(w), TRUE) = "closed"
                   THEN "none" ELSE CloseConsumer(w, FinallyPos(w), TRUE)]
       ELSE /\ wpc' = [wpc EXCEPT ![w] = CloseNext(w, FinallyPos(w))]
            /\ consumer' = [consumer EXCEPT ![w] = CloseConsumer(w, FinallyPos(w), FALSE)]
  /\ UNCHANGED <<chanVars, cliVars, monitorVars, mgrVars, running, stopping, batch, work,
                 polled, finished, publog, llmlog, strays>>

\* consumer.py:73-80  poll returned the first n messages of the topic
WPoll(w) ==
  /\ wpc[w] = "poll"
  /\ consumer[w] = "open"
  /\ \E n \in 1..Len(topic[w]) :
       /\ batch' = [batch EXCEPT ![w] = SubSeq(topic[w], 1, n)]
       /\ polled' = [polled EXCEPT ![w] = @ \o SubSeq(topic[w], 1, n)]
       /\ topic' = [topic EXCEPT ![w] = SubSeq(@, n + 1, Len(@))]
  /\ wpc' = [wpc EXCEPT ![w] = "batch"]
  /\ UNCHANGED <<respChan, costChan, cliVars, monitorVars, mgrVars, running, stopping, work, producer,
                 consumer, finished, publog, llmlog, closes, strays>>

\* consumer.py:75-76  nothing arrived within timeout_ms: continue
WPollEmpty(w) ==
  /\ wpc[w] = "poll"
  /\ consumer[w] = "open"
  /\ wpc' = [wpc EXCEPT ![w] = "loop"]
  /\ UNCHANGED <<chanVars, cliVars, monitorVars, mgrVars, running, stopping, batch, work, producer,
                 consumer, polled, finished, publog, llmlog, closes, strays>>

\* consumer.py:89-93  poll raised (transport failure, or the consumer was closed)
WPollError(w) ==
  /\ wpc[w] = "poll"
  /\ wpc' = [wpc EXCEPT ![w] = AfterPollError(running[w])]
  /\ UNCHANGED <<chanVars, cliVars, monitorVars, mgrVars, running, stopping, batch, work, producer,
                 consumer, polled, finished, publog, llmlog, closes, strays>>

\* consumer.py:93  time.sleep(1) is over
WBackoff(w) ==
  /\ wpc[w] = "backoff"
  /\ wpc' = [wpc EXCEPT ![w] = "loop"]
  /\ UNCHANGED <<chanVars, cliVars, monitorVars, mgrVars, running, stopping, batch, work, producer,
                 consumer, polled, finished, publog, llmlog, closes, strays>>

\* the exception of the parse reaches the except branch of the loop
AfterParseErrorPropagates(w, rest) == AfterPollError(running[w])
\* consumer.py:121-122  except Exception: log; the for loop goes on (line 79-80)
AfterParseError(w, rest) == NextPc(rest)

\* one event loop for all workers: busy while another worker's
\* _process_message runs on it
LoopShared(w) ==
  \A v \in AgentTypes \ {w} : wpc[v] \notin {"llm", "send_resp", "send_cost"}
\* consumer.py:82-87  _process_message runs on an event loop created for this
\* message in the worker's own thread: it waits for no other worker
LoopFree(w) == TRUE

\* the for loop hands over the message that arrived last
LastMessage(messages) == messages[Len(messages)]
\* consumer.py:79-80  the for loops hand the polled messages over in the order
\* of the poll
NextMessage(messages) == Head(messages)

\* consumer.py:82-87, 107-110, 121-122  the next message of the batch is given
\* to _process_message and parsed; a body that is no Message is logged and the
\* message is done with
WParse(w) ==
  /\ wpc[w] = "batch"
  /\ LoopFree(w)
  /\ batch' = [batch EXCEPT ![w] = Tail(@)]
  /\ IF ParseOk(NextMessage(batch[w]))
       THEN /\ work' = [work EXCEPT ![w] = [message |-> NextMessage(batch[w]),
                                            response |-> NoResult]]
            /\ wpc' = [wpc EXCEPT ![w] = "llm"]
            /\ UNCHANGED finished
       ELSE /\ wpc' = [wpc EXCEPT ![w] = AfterParseError(w, Tail(batch[w]))]
            /\ finished' = [finished EXCEPT ![w] = @ + 1]
            /\ UNCHANGED work
  /\ UNCHANGED <<chanVars, cliVars, monitorVars, mgrVars, running, stopping, producer, consumer, polled,
                 publog, llmlog, closes, strays>>

\* consumer.py:113  response = await self.agent.process_message(message)
WLlm(w) ==
  /\ wpc[w] = "llm"
  /\ \E outcome \in LlmOutcomes :
       /\ work' = [work EXCEPT ![w].response =
                     process_message(work[w].message, w, outcome)]
       /\ llmlog' = [llmlog EXCEPT ![work[w].message.message_id] = outcome]
  /\ wpc' = [wpc EXCEPT ![w] = "send_resp"]
  /\ UNCHANGED <<chanVars, cliVars, monitorVars, mgrVars, running, stopping, batch, producer, consumer,
                 polled, finished, publog, closes, strays>>

\* the publish of the Response is tried again
AfterResponseFailedRetry(w) == "send_resp"
\* the telemetry event is given up with the Response
AfterResponseFailedSkip(w) == NextPc(batch[w])
\* consumer.py:138-139  except Exception: log; _process_message goes on (line 119)
AfterResponseFailed(w) == "send_cost"

\* consumer.py:124-139  _send_response
WSendResponse(w) ==
  /\ wpc[w] = "send_resp"
  /\ \E outcome \in SendOutcomes(w) :
       /\ producer' = [producer EXCEPT ![w] = ProducerAfter(w, outcome)]
       /\ publog' = Append(publog, LogEntry(w, "responses", work[w].response, outcome))
       /\ respChan' = IF outcome = "sent" THEN Append(respChan, work[w].response)
                                          ELSE respChan
       /\ wpc' = [wpc EXCEPT ![w] = IF outcome = "sent" THEN "send_cost"
                                                        ELSE AfterResponseFailed(w)]
  /\ UNCHANGED <<topic, costChan, cliVars, monitorVars, mgrVars, running, stopping, batch, work, consumer,
                 polled, finished, llmlog, closes, strays>>

\* consumer.py:141-163  _send_cost_info; the message is done with
WSendCost(w) ==
  /\ wpc[w] = "send_cost"
  /\ \E outcome \in SendOutcomes(w) :
       /\ producer' = [producer EXCEPT ![w] = ProducerAfter(w, outcome)]
       /\ publog' = Append(publog, LogEntry(w, "cost_monitor",
                                            cost_data(work[w].response), outcome))
       /\ costChan' = IF outcome = "sent"
                        THEN Append(costChan, cost_data(work[w].response))
                        ELSE costChan
  /\ wpc' = [wpc EXCEPT ![w] = NextPc(batch[w])]
  /\ work' = [work EXCEPT ![w] = NoWork]
  /\ finished' = [finished EXCEPT ![w] = @ + 1]
  /\ UNCHANGED <<topic, respChan, cliVars, monitorVars, mgrVars, running, stopping, batch, consumer,
                 polled, llmlog, closes, strays>>

\* the steps of the consumer thread of worker w
Thread(w) ==
  \/ WCreate(w)
  \/ WLoopCheck(w)
  \/ WExit(w)
  \/ WPoll(w)
  \/ WPollEmpty(w)
  \/ WPollError(w)
  \/ WBackoff(w)
  \/ WParse(w)
  \/ WLlm(w)
  \/ WSendResponse(w)
  \/ WSendCost(w)

(***************************************************************************)
(* What reaches the request topics: the Messages of MessageProducer and    *)
(* bodies of other producers that are no Message.                          *)
(***************************************************************************)
LanguageOf(t) == IF t = "chinese_teacher" THEN "chinese" ELSE "english"

\* producer.py:109-125  message.dict() sent to the topic of its language
ProducerSends(t) ==
  /\ nextId <= MaxAsks
  /\ Len(topic[t]) < MaxBacklog
  /\ \E text \in Texts, det \in DetectorOutcomes :
       /\ Publication(text, det, nextId).topic = t
       /\ topic' = [topic EXCEPT ![t] = Append(@, Publication(text, det, nextId).value)]
  /\ nextId' = nextId + 1
  /\ UNCHANGED <<respChan, costChan, responses, response_event, ask, listener_pc,
                 histVars, shutVars, sent, workerVars, monitorVars, mgrVars>>

\* a body without content, or without message_id
ForeignRequest(t) ==
  /\ nextId <= MaxAsks
  /\ Len(topic[t]) < MaxBacklog
  /\ \E body \in {Body(nextId, NoContent, LanguageOf(t)),
                   Body(NoId, <<72, 105>>, LanguageOf(t))} :
       topic' = [topic EXCEPT ![t] = Append(@, body)]
  /\ nextId' = nextId + 1
  /\ UNCHANGED <<respChan, costChan, responses, response_event, ask, listener_pc,
                 histVars, shutVars, sent, workerVars, monitorVars, mgrVars>>

\* the response listener of the CLI was set up; it takes no step here
InitWorker == Init /\ listener_pc = "poll"

\* producer.py:90-145  send_message called directly (as the tests do); its
\* caller keeps the returned dict
SendMessage(content, det, outcome) ==
  /\ nextId <= MaxAsks
  /\ LET record == Publication(content, det, nextId)
     IN /\ outcome = "sent" => Len(topic[record.topic]) < MaxChan
        /\ topic' = IF outcome = "sent"
                      THEN [topic EXCEPT ![record.topic] = Append(@, record.value)]
                      ELSE topic
        /\ sent' = [content |-> content, det |-> det,
                    language |-> detect_language(content, det),
                    record |-> IF outcome = "sent" THEN record ELSE NoPublication,
                    result |-> send_message(content, det, nextId, outcome)]
  /\ nextId' = nextId + 1
  /\ UNCHANGED <<respChan, costChan, responses, response_event, ask, listener_pc,
                 histVars, shutVars, workerVars, monitorVars, mgrVars>>

\* the caller of send_message is through with the dict it was given
SendDone ==
  /\ sent # NoSend
  /\ sent' = NoSend
  /\ UNCHANGED <<chanVars, responses, response_event, ask, nextId, listener_pc,
                 histVars, shutVars, workerVars, monitorVars, mgrVars>>

\* no request is waiting on a topic and no dict is held
Drained == sent = NoSend /\ \A t \in AgentTypes : topic[t] = <<>>

\* direct calls of send_message, one after the other, each request taken
\* by its worker before the next call
NextRouter ==
  \/ \E content \in AllTexts, det \in DetectorOutcomes, outcome \in ProducerOutcomes :
       Drained /\ SendMessage(content, det, outcome)
  \/ SendDone
  \/ \E t \in AgentTypes : WorkerAnswers(t)
  \/ AskSendFailed(Console)
  \/ AskReturn(Console)

SpecRouter == InitWorker /\ [][NextRouter]_vars

\* the worker whose thread is followed
Agent == "english_teacher"

NextWorker ==
  \/ ProducerSends(Agent)
  \/ ForeignRequest(Agent)
  \/ Start(Agent)
  \/ StopBegin(Agent)
  \/ StopJoined(Agent)
  \/ StopClose(Agent)
  \/ WCreate(Agent)
  \/ WLoopCheck(Agent)
  \/ WExit(Agent)
  \/ WPoll(Agent)
  \/ WPollEmpty(Agent)
  \/ WPollError(Agent)
  \/ WBackoff(Agent)
  \/ WParse(Agent)
  \/ WLlm(Agent)
  \/ WSendResponse(Agent)
  \/ WSendCost(Agent)

SpecWorker == InitWorker /\ [][NextWorker]_vars

\* consumer.py:28-41  start() after a stop() that returned while the thread was
\* still inside a message (join(timeout=5) timed out): running is False, so
\* start() sets it and creates a second thread.  The thread of the earlier
\* start is alive at the position it had; the model follows the new thread.
Restart(w) ==
  /\ ~AlreadyRunning(running[w])
  /\ ~stopping[w]
  /\ ~ThreadGone(w)
  /\ strays[w] < MaxStrays
  /\ running' = [running EXCEPT ![w] = TRUE]
  /\ wpc' = [wpc EXCEPT ![w] = "create"]
  /\ strays' = [strays EXCEPT ![w] = @ + 1]
  /\ UNCHANGED <<chanVars, cliVars, monitorVars, mgrVars, stopping, batch, work, producer, consumer,
                 polled, finished, publog, llmlog, closes>>

\* the calls of start() and stop() in any order
NextRestart ==
  \/ NextWorker
  \/ Restart(Agent)

SpecRestart == InitWorker /\ [][NextRestart]_vars

\* every consumer thread that can take a step eventually takes one
FairSpecWorker == SpecWorker /\ WF_vars(Thread(Agent))

(***************************************************************************)
(* CostMonitor (monitor.py:10-159).                                        *)
(***************************************************************************)
\* dict.get(key, default)
Get(d, key, default) == IF key \in DOMAIN d THEN d[key] ELSE default

\* monitor.py:106-110  the fields of a cost event, with the defaults of dict.get
EventAgent(cost_event) == Get(cost_event, "agent_type", "unknown")
EventCost(cost_event) == Get(Get(cost_event, "cost_info", EmptyDict), "cost_usd", 0)
EventModel(cost_event) == Get(Get(cost_event, "cost_info", EmptyDict), "model_name", "unknown")

\* a field that json.loads gave as a list or a dict: it cannot be a dict key
Unhashable == "<unhashable>"
\* a cost_usd that json.loads gave as a string or as None: float + it raises
\* TypeError; told apart from every cost by its sign
NotANumber == 0 - 1

\* the accumulators after subtracting: total_cost -= cost_usd
IncrementNegated(acc, cost_usd) == acc - cost_usd
\* monitor.py:113, 118, 123  acc += cost_usd, applied to the value loaded before
Increment(acc, cost_usd) == acc + cost_usd

\* monitor.py:112-126  where the monitor thread is inside _process_cost_info:
\* "batch" (entry: the fields are read and total_cost is loaded), "total_wr"
\* (total_cost is stored), "agent_chk" (the key is inserted at 0.0 if absent),
\* "agent_rd" and "agent_wr" (load and store of cost_by_agent[agent_type]),
\* the same three for cost_by_model, "count_rd" and "count_wr"
ProcessPositions ==
  {"batch", "total_wr", "agent_chk", "agent_rd", "agent_wr", "model_chk",
   "model_rd", "model_wr", "count_rd", "count_wr"}

\* the position after one step; the load of an entry that reset_statistics
\* cleared in between raises KeyError, the addition of a cost that is no
\* number and the lookup of an unhashable key raise TypeError; the except
\* clause logs the exception (monitor.py:130-131)
ProcessNext(pos, cost_event) ==
  IF pos = "batch"
    THEN (IF EventCost(cost_event) = NotANumber THEN "raised" ELSE "total_wr")
  ELSE IF pos = "total_wr" THEN "agent_chk"
  ELSE IF pos = "agent_chk"
    THEN (IF EventAgent(cost_event) = Unhashable THEN "raised" ELSE "agent_rd")
  ELSE IF pos = "agent_rd"
    THEN (IF EventAgent(cost_event) \in DOMAIN cost_by_agent THEN "agent_wr" ELSE "raised")
  ELSE IF pos = "agent_wr" THEN "model_chk"
  ELSE IF pos = "model_chk"
    THEN (IF EventModel(cost_event) = Unhashable THEN "raised" ELSE "model_rd")
  ELSE IF pos = "model_rd"
    THEN (IF EventModel(cost_event) \in DOMAIN cost_by_model THEN "model_wr" ELSE "raised")
  ELSE IF pos = "model_wr" THEN "count_rd"
  ELSE IF pos = "count_rd" THEN "count_wr"
  ELSE "done"

\* start() begins a new count
StartClears(value) == 0
\* monitor.py:41-45  start() assigns running and thread only; the accumulators
\* are initialised in __init__ (monitor.py:24-28)
StartKeeps(value) == value

\* monitor.py:32-45  start(), called once the previous thread, if any, has ended
MonStart ==
  /\ ~AlreadyRunning(mon_running)
  /\ ~mon_stopping
  /\ mon_pc \in {"none", "exited"}
  /\ mon_running' = TRUE
  /\ mon_pc' = "create"
  /\ total_cost' = StartKeeps(total_cost)
  /\ message_count' = StartKeeps(message_count)
  /\ UNCHANGED <<chanVars, cliVars, workerVars, mgrVars, mon_stopping, mon_consumer,
                 mon_batch, cost_by_agent, cost_by_model,
                 procVars, apiVars>>

\* monitor.py:53-55  stop(): the flag is cleared and the caller joins the thread
MonStopBegin ==
  /\ ~mon_stopping
  /\ mon_running \/ mon_pc \notin {"none", "exited"}
  /\ mon_running' = FALSE
  /\ mon_stopping' = TRUE
  /\ UNCHANGED <<chanVars, cliVars, workerVars, mgrVars, mon_pc, mon_consumer, mon_batch,
                 statVars,
                 procVars, apiVars>>

\* monitor.py:55-56  join returned (thread ended, or 5 seconds over): close_all
MonStopEnd ==
  /\ mon_stopping
  /\ mon_pc \in {"none", "exited"} \cup ProcessPositions
  /\ mon_stopping' = FALSE
  /\ mon_consumer' = IF mon_consumer = "open" THEN "closed" ELSE mon_consumer
  /\ UNCHANGED <<chanVars, cliVars, workerVars, mgrVars, mon_running, mon_pc, mon_batch,
                 statVars,
                 procVars, apiVars>>

\* monitor.py:65-72, 93-94  create_consumer; a failure is fatal for the thread
MonCreate ==
  /\ mon_pc = "create"
  /\ \/ /\ mon_consumer' = "open"
        /\ mon_pc' = "loop"
     \/ /\ mon_consumer' = mon_consumer
        /\ mon_pc' = "fatal"
  /\ UNCHANGED <<chanVars, cliVars, workerVars, mgrVars, mon_running, mon_stopping,
                 mon_batch, statVars,
                 procVars, apiVars>>

\* monitor.py:74  while self.running
MonLoopCheck ==
  /\ mon_pc = "loop"
  /\ mon_pc' = IF mon_running THEN "poll" ELSE "fatal"
  /\ UNCHANGED <<chanVars, cliVars, workerVars, mgrVars, mon_running, mon_stopping,
                 mon_consumer, mon_batch, statVars,
                 procVars, apiVars>>

\* monitor.py:95-96  finally: self.kafka_client.close_all(); the thread ends
MonExit ==
  /\ mon_pc = "fatal"
  /\ mon_pc' = "exited"
  /\ mon_consumer' = "none"
  /\ UNCHANGED <<chanVars, cliVars, workerVars, mgrVars, mon_running, mon_stopping,
                 mon_batch, statVars,
                 procVars, apiVars>>

\* monitor.py:77-85  poll returned the first n events of the telemetry topic
MonPoll ==
  /\ mon_pc = "poll"
  /\ mon_consumer = "open"
  /\ \E n \in 1..Len(costChan) :
       /\ mon_batch' = SubSeq(costChan, 1, n)
       /\ costChan' = SubSeq(costChan, n + 1, Len(costChan))
  /\ mon_pc' = "batch"
  /\ UNCHANGED <<topic, respChan, cliVars, workerVars, mgrVars, mon_running, mon_stopping,
                 mon_consumer, statVars,
                 procVars, apiVars>>

\* monitor.py:79-80  nothing arrived within timeout_ms: continue
MonPollEmpty ==
  /\ mon_pc = "poll"
  /\ mon_consumer = "open"
  /\ mon_pc' = "loop"
  /\ UNCHANGED <<chanVars, cliVars, workerVars, mgrVars, mon_running, mon_stopping,
                 mon_consumer, mon_batch, statVars,
                 procVars, apiVars>>

\* monitor.py:87-91  poll raised (transport failure, or the consumer was closed)
MonPollError ==
  /\ mon_pc = "poll"
  /\ mon_pc' = AfterPollError(mon_running)
  /\ UNCHANGED <<chanVars, cliVars, workerVars, mgrVars, mon_running, mon_stopping,
                 mon_consumer, mon_batch, statVars,
                 procVars, apiVars>>

\* monitor.py:91  time.sleep(1) is over
MonBackoff ==
  /\ mon_pc = "backoff"
  /\ mon_pc' = "loop"
  /\ UNCHANGED <<chanVars, cliVars, workerVars, mgrVars, mon_running, mon_stopping,
                 mon_consumer, mon_batch, statVars,
                 procVars, apiVars>>

\* monitor.py:98-131  one step of _process_cost_info on the next event of the batch
MonProcess ==
  /\ mon_pc \in ProcessPositions
  /\ LET cost_event == Head(mon_batch)
         agent_type == EventAgent(cost_event)
         cost_usd   == EventCost(cost_event)
         model_name == EventModel(cost_event)
         next       == ProcessNext(mon_pc, cost_event)
         over       == next \in {"raised", "done"}
     IN /\ mon_tmp' =
             IF over THEN 0
             ELSE IF mon_pc = "batch" THEN total_cost
             ELSE IF mon_pc = "agent_rd" THEN cost_by_agent[agent_type]
             ELSE IF mon_pc = "model_rd" THEN cost_by_model[model_name]
             ELSE IF mon_pc = "count_rd" THEN message_count
             ELSE mon_tmp
        /\ total_cost' =
             IF mon_pc = "total_wr" THEN Increment(mon_tmp, cost_usd) ELSE total_cost
        /\ cost_by_agent' =
             IF mon_pc = "agent_chk" /\ next # "raised"
                                    /\ agent_type \notin DOMAIN cost_by_agent
               THEN DictPut(cost_by_agent, agent_type, 0)
             ELSE IF mon_pc = "agent_wr"
               THEN DictPut(cost_by_agent, agent_type, Increment(mon_tmp, cost_usd))
             ELSE cost_by_agent
        /\ cost_by_model' =
             IF mon_pc = "model_chk" /\ next # "raised"
                                    /\ model_name \notin DOMAIN cost_by_model
               THEN DictPut(cost_by_model, model_name, 0)
             ELSE IF mon_pc = "model_wr"
               THEN DictPut(cost_by_model, model_name, Increment(mon_tmp, cost_usd))
             ELSE cost_by_model
        /\ message_count' = IF mon_pc = "count_wr" THEN mon_tmp + 1 ELSE message_count
        /\ evlog' = IF mon_pc = "batch" THEN Append(evlog, cost_event) ELSE evlog
        /\ mon_batch' = IF over THEN Tail(mon_batch) ELSE mon_batch
        /\ mon_pc' = IF over THEN NextPc(Tail(mon_batch)) ELSE next
  /\ UNCHANGED <<chanVars, cliVars, workerVars, mgrVars, mon_running, mon_stopping,
                 mon_consumer, apiVars>>

\* the steps of the monitor thread
MonThread ==
  \/ MonCreate
  \/ MonLoopCheck
  \/ MonExit
  \/ MonPoll
  \/ MonPollEmpty
  \/ MonPollError
  \/ MonBackoff
  \/ MonProcess

\* a worker and the cost monitor, both started and stopped at any time
Light == nextId <= MaxLoopSends

NextLoops ==
  \/ Light /\ ProducerSends(Agent)
  \/ Start(Agent)
  \/ StopBegin(Agent)
  \/ StopJoined(Agent)
  \/ StopClose(Agent)
  \/ WCreate(Agent)
  \/ WLoopCheck(Agent)
  \/ WExit(Agent)
  \/ WPoll(Agent)
  \/ WPollEmpty(Agent)
  \/ WPollError(Agent)
  \/ WBackoff(Agent)
  \/ WParse(Agent)
  \/ WLlm(Agent)
  \/ WSendResponse(Agent)
  \/ WSendCost(Agent)
  \/ MonStart
  \/ MonStopBegin
  \/ MonStopEnd
  \/ MonCreate
  \/ MonLoopCheck
  \/ MonExit
  \/ MonPoll
  \/ MonPollEmpty
  \/ MonPollError
  \/ MonBackoff
  \/ MonProcess

SpecLoops == InitWorker /\ [][NextLoops]_vars

FairSpecLoops == SpecLoops /\ WF_vars(Thread(Agent)) /\ WF_vars(MonThread)

(***************************************************************************)
(* The statistics of the CostMonitor, read and reset by another thread     *)
(* (monitor.py:133-159; cli.py:412 prints the summary while the monitor    *)
(* thread is still running).  No lock guards the four accumulators, so the *)
(* statements of the two threads interleave.                               *)
(***************************************************************************)

\* what the "cost_monitor" topic carries: the events of the workers
\* (consumer.py:149-154) and events that miss fields (test_monitor.py:145-160)
WorkerEvents ==
  { [agent_type |-> "english_teacher", cost_info |-> create_cost_info(1, 1)],
    [agent_type |-> "chinese_teacher", cost_info |-> create_cost_info(2, 1)] }
IncompleteEvents ==
  { EmptyDict,
    [agent_type |-> "unknown_agent", cost_info |-> EmptyDict],
    [cost_info |-> [cost_usd |-> 4]] }
CostEvents == WorkerEvents \cup IncompleteEvents

\* the events published to the telemetry topic so far
Published ==
  Len(evlog) + Len(costChan) + Len(mon_batch)
    - (IF mon_pc \in ProcessPositions \ {"batch"} THEN 1 ELSE 0)

\* the calls of reset_statistics and get_statistics so far
Calls == Len(api_last) + (IF api_pc = "idle" THEN 0 ELSE 1)

\* a producer publishes a cost event
CostArrives(cost_event) ==
  /\ Published + Calls < MaxOps
  /\ Len(costChan) < MaxChan
  /\ costChan' = Append(costChan, cost_event)
  /\ UNCHANGED <<topic, respChan, cliVars, workerVars, mgrVars, monitorVars>>

\* monitor.py:149-159  reset_statistics, one assignment at a time
reset_statistics ==
  /\ api_pc \in {"idle", "r_agent", "r_model", "r_count"}
  /\ api_pc = "idle" => Published + Calls < MaxOps
  /\ total_cost' = IF api_pc = "idle" THEN 0 ELSE total_cost
  /\ cost_by_agent' = IF api_pc = "r_agent" THEN EmptyDict ELSE cost_by_agent
  /\ cost_by_model' = IF api_pc = "r_model" THEN EmptyDict ELSE cost_by_model
  /\ message_count' = IF api_pc = "r_count" THEN 0 ELSE message_count
  /\ api_pc' = IF api_pc = "idle" THEN "r_agent"
               ELSE IF api_pc = "r_agent" THEN "r_model"
               ELSE IF api_pc = "r_model" THEN "r_count"
               ELSE "idle"
  /\ api_last' = IF api_pc = "r_count" THEN Append(api_last, "reset") ELSE api_last
  /\ stats' = NoStats
  /\ UNCHANGED <<chanVars, cliVars, workerVars, mgrVars, mon_running, mon_pc,
                 mon_stopping, mon_consumer, mon_batch, procVars>>

\* max(self.message_count, 1)
Max1(n) == IF n > 1 THEN n ELSE 1

\* monitor.py:133-147  get_statistics, one read of an attribute at a time
get_statistics ==
  /\ api_pc \in {"idle", "s_count", "s_avg_total", "s_avg_count", "s_agent", "s_model"}
  /\ api_pc = "idle" => Published + Calls < MaxOps
  /\ stats' =
       IF api_pc = "idle"
         THEN Statistics(total_cost, 0, 0, 1, EmptyDict, EmptyDict)
       ELSE IF api_pc = "s_count" THEN [stats EXCEPT !.total_messages = message_count]
       ELSE IF api_pc = "s_avg_total"
         THEN [stats EXCEPT !.average_cost_per_message[1] = total_cost]
       ELSE IF api_pc = "s_avg_count"
         THEN [stats EXCEPT !.average_cost_per_message[2] = Max1(message_count)]
       ELSE IF api_pc = "s_agent" THEN [stats EXCEPT !.cost_by_agent = cost_by_agent]
       ELSE [stats EXCEPT !.cost_by_model = cost_by_model]
  /\ api_pc' = IF api_pc = "idle" THEN "s_count"
               ELSE IF api_pc = "s_count" THEN "s_avg_total"
               ELSE IF api_pc = "s_avg_total" THEN "s_avg_count"
               ELSE IF api_pc = "s_avg_count" THEN "s_agent"
               ELSE IF api_pc = "s_agent" THEN "s_model"
               ELSE "idle"
  /\ api_last' = IF api_pc = "s_model" THEN Append(api_last, "get") ELSE api_last
  /\ UNCHANGED <<chanVars, cliVars, workerVars, mgrVars, mon_running, mon_pc,
                 mon_stopping, mon_consumer, mon_batch, statVars, procVars>>

\* the running monitor with its producers and the thread that reads and
\* resets the statistics
NextStats ==
  \/ \E cost_event \in CostEvents : CostArrives(cost_event)
  \/ MonStart
  \/ MonCreate
  \/ MonLoopCheck
  \/ MonExit
  \/ MonPoll
  \/ MonPollEmpty
  \/ MonProcess
  \/ reset_statistics
  \/ get_statistics

SpecStats == InitWorker /\ [][NextStats]_vars

\* events whose fields have the wrong JSON type: the topic is read with
\* json.loads and nothing validates message.value (monitor.py:82-85)
MalformedEvents ==
  { [agent_type |-> Unhashable, cost_info |-> create_cost_info(1, 1)],
    [agent_type |-> "english_teacher",
     cost_info |-> [cost_usd |-> 4, model_name |-> Unhashable]],
    [agent_type |-> "english_teacher",
     cost_info |-> [cost_usd |-> NotANumber, model_name |-> EngineName]] }

\* the monitor thread alone with its accumulators, fed with events of any
\* shape; nothing else writes the statistics
NextEvents ==
  \/ \E cost_event \in CostEvents \cup MalformedEvents : CostArrives(cost_event)
  \/ MonStart
  \/ MonCreate
  \/ MonLoopCheck
  \/ MonExit
  \/ MonPoll
  \/ MonPollEmpty
  \/ MonProcess

SpecEvents == InitWorker /\ [][NextEvents]_vars

\* the same with a monitor that is stopped and started again and whose
\* polls may fail, fed by the workers
NextStatsLifecycle ==
  \/ \E cost_event \in WorkerEvents : CostArrives(cost_event)
  \/ MonStart
  \/ MonStopBegin
  \/ MonStopEnd
  \/ MonCreate
  \/ MonLoopCheck
  \/ MonExit
  \/ MonPoll
  \/ MonPollEmpty
  \/ MonPollError
  \/ MonBackoff
  \/ MonProcess
  \/ reset_statistics
  \/ get_statistics

SpecStatsLifecycle == InitWorker /\ [][NextStatsLifecycle]_vars

(***************************************************************************)
(* ConsumerManager (consumer.py:166-221).                                  *)
(***************************************************************************)
\* the keys of self.consumers
Registered == {consumers[i] : i \in 1..Len(consumers)}

\* consumer.py:186-188  self.consumers[agent_key] = consumer: a new key comes
\* last in the dict, a known key keeps its place
DictSetKey(seq, k) == IF \E i \in 1..Len(seq) : seq[i] = k THEN seq ELSE Append(seq, k)

\* the for loop leaves out the consumer registered last
StopAllButLast(seq) == SubSeq(seq, 1, Len(seq) - 1)
\* consumer.py:207-208  for agent_key, consumer in self.consumers.items()
StopAllItems(seq) == seq

\* consumer.py:211-221  get_status
get_status == [k \in Registered |-> running[k]]

\* consumer.py:178-189  add_agent_consumer: a new AgentConsumer under the key of
\* the agent type.  A consumer it replaces is one whose thread has ended.
Register(k) ==
  /\ mgr_pc = "idle"
  /\ k \in Registered => (ThreadGone(k) /\ ~stopping[k])
  /\ consumers' = DictSetKey(consumers, k)
  /\ running' = [running EXCEPT ![k] = FALSE]
  /\ wpc' = [wpc EXCEPT ![k] = "none"]
  /\ producer' = [producer EXCEPT ![k] = FALSE]
  /\ consumer' = [consumer EXCEPT ![k] = "none"]
  /\ mgr_last' = "register"
  /\ UNCHANGED <<chanVars, cliVars, monitorVars, stopping, batch, work, polled,
                 finished, publog, llmlog, closes, strays, scl, mgr_pc, mgr_todo>>

\* consumer.py:186-188  add_agent_consumer for a key whose consumer has a live
\* thread: the dict entry is overwritten with a new AgentConsumer (its own
\* KafkaClient, running False, no thread); the replaced consumer is in no
\* dict any more and its thread stays alive
Reregister(k) ==
  /\ mgr_pc = "idle"
  /\ k \in Registered
  /\ ~ThreadGone(k)
  /\ ~stopping[k]
  /\ strays[k] < MaxStrays
  /\ consumers' = DictSetKey(consumers, k)
  /\ strays' = [strays EXCEPT ![k] = @ + 1]
  /\ running' = [running EXCEPT ![k] = FALSE]
  /\ wpc' = [wpc EXCEPT ![k] = "none"]
  /\ producer' = [producer EXCEPT ![k] = FALSE]
  /\ consumer' = [consumer EXCEPT ![k] = "none"]
  /\ closes' = [closes EXCEPT ![k] = NoCloses]
  /\ mgr_last' = "register"
  /\ UNCHANGED <<chanVars, cliVars, monitorVars, stopping, batch, work, polled,
                 finished, publog, llmlog, scl, mgr_pc, mgr_todo>>

\* consumer.py:191-199  start_all: start() of every consumer (consumer.py:28-41),
\* called when no thread of an earlier start is still alive after a stop
StartAll ==
  /\ mgr_pc = "idle"
  /\ \A k \in Registered : running[k] \/ ThreadGone(k)
  /\ running' = [k \in AgentTypes |-> IF k \in Registered THEN TRUE ELSE running[k]]
  /\ wpc' = [k \in AgentTypes |->
               IF k \in Registered /\ ~running[k] THEN "create" ELSE wpc[k]]
  /\ mgr_last' = "start_all"
  /\ UNCHANGED <<chanVars, cliVars, monitorVars, stopping, batch, work, producer,
                 consumer, polled, finished, publog, llmlog, closes, strays, scl, consumers,
                 mgr_pc, mgr_todo>>

\* consumer.py:201-208  stop_all is entered
StopAllBegin ==
  /\ mgr_pc = "idle"
  /\ mgr_todo' = StopAllItems(consumers)
  /\ mgr_pc' = IF StopAllItems(consumers) = <<>> THEN "idle" ELSE "stop_all"
  /\ mgr_last' = IF StopAllItems(consumers) = <<>> THEN "stop_all" ELSE mgr_last
  /\ UNCHANGED <<chanVars, cliVars, monitorVars, workerVars, scl, consumers>>

\* consumer.py:208, 49-51  consumer.stop() for the next consumer of the loop
StopAllNext(w) ==
  /\ mgr_pc = "stop_all"
  /\ Head(mgr_todo) = w
  /\ ~stopping[w]
  /\ running' = [running EXCEPT ![w] = FALSE]
  /\ stopping' = [stopping EXCEPT ![w] = TRUE]
  /\ UNCHANGED <<chanVars, cliVars, monitorVars, mgrVars, wpc, batch, work, producer,
                 consumer, polled, finished, publog, llmlog, closes, strays>>

\* two workers behind one manager; the requests sent are all in the language
\* of worker Agent, so the other worker polls an empty topic
NextManager ==
  \/ \E k \in AgentTypes : Register(k)
  \/ StartAll
  \/ StopAllBegin
  \/ \E w \in AgentTypes : StopAllNext(w)
  \/ \E w \in AgentTypes : StopJoined(w)
  \/ \E w \in AgentTypes : StopClose(w)
  \/ Light /\ ProducerSends(Agent)
  \/ \E w \in AgentTypes : WCreate(w)
  \/ \E w \in AgentTypes : WLoopCheck(w)
  \/ \E w \in AgentTypes : WExit(w)
  \/ \E w \in AgentTypes : WPoll(w)
  \/ \E w \in AgentTypes : WPollEmpty(w)
  \/ \E w \in AgentTypes : WPollError(w)
  \/ \E w \in AgentTypes : WBackoff(w)
  \/ \E w \in AgentTypes : WParse(w)
  \/ \E w \in AgentTypes : WLlm(w)
  \/ \E w \in AgentTypes : WSendResponse(w)
  \/ \E w \in AgentTypes : WSendCost(w)

SpecManager == InitWorker /\ [][NextManager]_vars

\* register, start_all and stop_all in any order, also for a type whose
\* consumer is running
NextRegistry ==
  \/ NextManager
  \/ \E k \in AgentTypes : Reregister(k)

SpecRegistry == InitWorker /\ [][NextRegistry]_vars

(***************************************************************************)
(* TeachingSystemCLI.shutdown (cli.py:399-431), run by another task of the *)
(* event loop while calls of ask_question are waiting.  It has no await,   *)
(* so it runs to its end before any other task.  The far side of the bus   *)
(* is WorkerAnswers here, so stop() finds no thread to join: running is    *)
(* cleared, the monitor and the consumers are told to stop and the         *)
(* producer and the consumers of the CLI's KafkaClient are closed.         *)
(***************************************************************************)
Shutdown ==
  /\ ~cli_down
  /\ \A w \in AgentTypes : ThreadGone(w) /\ ~stopping[w]
  /\ mon_pc \in {"none", "exited"} /\ ~mon_stopping
  /\ cli_down' = TRUE
  /\ shut_at' = [c \in Callers |->
                   IF ask[c].pc \in {"waiting", "ready"} THEN ask[c].elapsed
                                                         ELSE NotWaiting]
  /\ running' = [w \in AgentTypes |-> FALSE]
  /\ mon_running' = FALSE
  /\ UNCHANGED <<chanVars, responses, response_event, ask, nextId, listener_pc, histVars,
                 wpc, stopping, batch, work, producer, consumer, polled, finished,
                 publog, llmlog, closes, strays, mon_pc, mon_stopping, mon_consumer, mon_batch,
                 statVars, procVars, apiVars, mgrVars, sent>>

\* the console until and after shutdown: no question is read and no worker
\* answers once the system is down
NextShutdown ==
  \/ ~cli_down /\ AskStart(Console)
  \/ AskWaitTimeout(Console)
  \/ AskResume(Console)
  \/ AskReturn(Console)
  \/ Tick
  \/ ListenerPoll
  \/ ListenerPollError
  \/ ListenerRetry
  \/ \E t \in AgentTypes : ~cli_down /\ WorkerAnswers(t)
  \/ Shutdown

SpecShutdown == InitWorker /\ [][NextShutdown]_vars

\* the listener task: created once by _setup_response_listener and never
\* cancelled by shutdown()
ListenerTask == ListenerPoll \/ ListenerPollError \/ ListenerRetry

\* the event loop keeps scheduling the listener task and time passes
FairSpecShutdown == SpecShutdown /\ WF_vars(ListenerTask) /\ WF_vars(Tick)

(***************************************************************************)
(* The whole system of cli.py: the console's ask_question, the response    *)
(* listener, both workers and the cost monitor, started (cli.py:211-233).  *)
(* The topics also carry bodies and replies of other producers.            *)
(***************************************************************************)
\* the first seconds of a call of ask_question
Early == \A c \in Callers : ask[c].elapsed < MaxStagger

\* cli.py:134-139, 219  start_all starts the consumers in the order of their
\* registration
StartsNext(w) == w = "chinese_teacher" \/ running["chinese_teacher"]
\* cli.py:219-226  the consumers and the monitor are started before the first
\* question is read
Started == mon_running /\ \A w \in AgentTypes : running[w]

\* a worker is inside process_message: what other producers publish is
\* followed from then on
Busy == \E w \in AgentTypes : wpc[w] = "llm"

NextSystem ==
  \/ Started /\ Light /\ AskStart(Console)
  \/ AskWaitTimeout(Console)
  \/ AskResume(Console)
  \/ AskReturn(Console)
  \/ Early /\ Tick
  \/ ListenerPoll
  \/ Busy /\ ForeignReply
  \/ \E t \in AgentTypes : Busy /\ wpc[t] # "llm" /\ ForeignRequest(t)
  \/ \E w \in AgentTypes : StartsNext(w) /\ Start(w)
  \/ \E w \in AgentTypes : WCreate(w)
  \/ \E w \in AgentTypes : WLoopCheck(w)
  \/ \E w \in AgentTypes : WPoll(w)
  \/ \E w \in AgentTypes : WPollEmpty(w)
  \/ \E w \in AgentTypes : WParse(w)
  \/ \E w \in AgentTypes : WLlm(w)
  \/ \E w \in AgentTypes : WSendResponse(w)
  \/ \E w \in AgentTypes : WSendCost(w)
  \/ (\A w \in AgentTypes : running[w]) /\ MonStart
  \/ MonCreate
  \/ MonLoopCheck
  \/ MonPoll
  \/ MonPollEmpty
  \/ MonProcess

SpecSystem == InitWorker /\ [][NextSystem]_vars

(***************************************************************************)
(* Properties of the correlation of replies (ask_question and              *)
(* _listen_responses).                                                     *)
(***************************************************************************)
Outstanding(c) == ask[c].pc \in {"waiting", "ready"}
IsReply(r) == r.content \notin {TimedOut.content, SendFailed.content, NoResult.content}
ReturnsNow(c) == ask[c].pc # "done" /\ ask'[c].pc = "done"
ReceivedFor(id) == {r \in received : r.message_id = id}

\* C1: a Reply the listener received for the id of an outstanding call is what
\* the call returns: a call never gives up on an id whose Reply has been
\* received; a returned Reply is the received one, leaves the table in the
\* same step, and its id has produced no result before (no second delivery,
\* never both a Reply and a timeout).
C1_ReplyExactlyOnce ==
  [][\A c \in Callers :
       ReturnsNow(c) /\ ask'[c].result # SendFailed =>
         LET id == ask'[c].message_id
             r == ask'[c].result
         IN /\ id \notin delivered \cup expired
            /\ r = TimedOut => ReceivedFor(id) = {}
            /\ IsReply(r) => /\ r \in ReceivedFor(id)
                             /\ id \notin DOMAIN responses'
                             /\ id \in delivered' /\ id \notin expired'
            /\ IsReply(r) \/ r = TimedOut]_vars

\* a second question is answered after the first one timed out and its late
\* Reply arrived
C1_Witness ==
  /\ ask[Console].pc = "done"
  /\ IsReply(ask[Console].result)
  /\ ask[Console].message_id = 2
  /\ 1 \in expired
  /\ ReceivedFor(1) # {}

\* C2: a call that returned a Reply returned one carrying the id of the
\* request it sent.
C2_OwnReplyOnly ==
  \A c \in Callers :
    ask[c].pc = "done" /\ IsReply(ask[c].result) =>
      ask[c].result.message_id = ask[c].message_id

\* two calls are outstanding, the Reply of the later request arrived first and
\* has been returned while the Reply of the earlier one waits in the table
C2_Witness ==
  \E c, d \in Callers :
    /\ c # d
    /\ ask[c].pc = "done" /\ IsReply(ask[c].result)
    /\ ask[c].message_id > ask[d].message_id
    /\ ask[d].pc = "ready"
    /\ ask[d].message_id \in DOMAIN responses
    /\ StaleId \in DOMAIN responses

C4_NoEarlyTimeout ==
  \A c \in Callers :
    ask[c].pc = "done" /\ ask[c].result = TimedOut => ask[c].elapsed > Timeout

\* a call has given up although the listener was woken by other replies
C4_Witness ==
  /\ ask[Console].pc = "done"
  /\ ask[Console].result = TimedOut
  /\ ask[Console].message_id = 2
  /\ StaleId \in DOMAIN responses
  /\ 1 \in DOMAIN responses

\* C5: the table holds entries only for identifiers with an outstanding wait.
C5_OnlyOutstandingStored ==
  \A k \in DOMAIN responses :
    \E c \in Callers : Outstanding(c) /\ ask[c].message_id = k

(***************************************************************************)
(* Properties of a worker and of the polling loops.                        *)
(***************************************************************************)
\* positions in publog of the publishes of worker Agent to topic t for message id
Entries(t, id) ==
  {i \in 1..Len(publog) :
     publog[i].by = Agent /\ publog[i].topic = t /\ publog[i].message.message_id = id}

PublishedOk(t, id) == {i \in Entries(t, id) : publog[i].ok}

OnChannel(chan, id) == {i \in 1..Len(chan) : chan[i].message_id = id}

\* the thread of worker Agent is between the parse and the end of _process_message
InProcess == wpc[Agent] \in {"llm", "send_resp", "send_cost"}

\* the polled messages the worker is through with
Settled == {polled[Agent][i] : i \in 1..finished[Agent]}

\* C6 (as stated): every message a worker polled and is through with has
\* exactly one Reply carrying its id on the reply channel, whether or not
\* its body deserializes into a Message.
C6_OneReplyPerPolledMessage ==
  \A m \in Settled : Cardinality(OnChannel(respChan, m.message_id)) = 1

C6_Settlement ==
  /\ \A m \in Settled :
       IF ParseOk(m)
         THEN /\ Cardinality(Entries("responses", m.message_id)) = 1
              /\ Cardinality(OnChannel(respChan, m.message_id))
                   = Cardinality(PublishedOk("responses", m.message_id))
         ELSE /\ Entries("responses", m.message_id) = {}
              /\ OnChannel(respChan, m.message_id) = {}
  /\ \A id \in AllIds : Cardinality(Entries("responses", id)) <= 1

\* C6 (amended): every message a worker polled is eventually done with; by
\* then, if its body deserializes into a Message, exactly one Reply carrying
\* its id was handed to the publish on the reply channel, exactly once,
\* whether the answer generation succeeded, failed or raised, and the Reply
\* is on the channel if that publish succeeded; if the body does not
\* deserialize, no Reply is published for it.
C6_ReplyPerDeserializedMessage ==
  /\ []C6_Settlement
  /\ []<>(finished[Agent] = Len(polled[Agent]))

\* C6 witness: the worker is through with a message it answered and
\* published, and with one whose body is no Message.
C6_Witness ==
  /\ \E m \in Settled : ParseOk(m) /\ PublishedOk("responses", m.message_id) # {}
  /\ \E m \in Settled : ~ParseOk(m)

LlmFailed(id) == id \in IssuedIds /\ llmlog[id] \in {"fail", "raise"}

\* the thread of Agent ends only where _consume_loop ends: create_consumer
\* failed, or the while condition found running false
ExitsOnlyAtLoopEnd ==
  (wpc'[Agent] = "fatal" /\ wpc[Agent] # "fatal")
    => (wpc[Agent] = "create" \/ (wpc[Agent] = "loop" /\ ~running[Agent]))

\* C7: when the answer generation for a Request fails or raises, the worker
\* hands to the reply channel publish one Reply with the request's id,
\* success false and a cost record of zero tokens and zero cost (on the
\* channel when the publish succeeds), and the thread goes on: it does not
\* end because of the failure.
C7_FailureBecomesFailedReply ==
  /\ [](\A i \in 1..Len(publog) :
          (publog[i].topic = "responses" /\ LlmFailed(publog[i].message.message_id))
            => /\ publog[i].message.success = FALSE
               /\ publog[i].message.cost_info.total_tokens = 0
               /\ publog[i].message.cost_info.cost_usd = 0
               /\ publog[i].ok =>
                    \E k \in 1..Len(respChan) : respChan[k] = publog[i].message)
  /\ [](\A m \in Settled :
          (ParseOk(m) /\ LlmFailed(m.message_id))
            => Cardinality(Entries("responses", m.message_id)) = 1)
  /\ [][/\ ExitsOnlyAtLoopEnd
        /\ wpc[Agent] = "llm" => wpc'[Agent] \in {"llm", "send_resp"}]_vars

\* C7 witness: the answer generation raised for a request, its failed Reply
\* is on the reply channel, and the thread is at a poll again.
C7_Witness ==
  /\ wpc[Agent] = "poll"
  /\ \E m \in Settled :
       /\ ParseOk(m)
       /\ llmlog[m.message_id] = "raise"
       /\ PublishedOk("responses", m.message_id) # {}

\* no polled message is lost: each is done with, being processed, or waiting
\* in the batch, and the batch is empty outside its for loop
NothingDropped ==
  /\ Len(polled[Agent])
       = finished[Agent] + Len(batch[Agent]) + (IF InProcess THEN 1 ELSE 0)
  /\ wpc[Agent] \notin {"batch", "llm", "send_resp", "send_cost"}
       => batch[Agent] = <<>>
  /\ \A m \in Settled : ParseOk(m) => Entries("responses", m.message_id) # {}

\* a step that skips a malformed message touches nothing but that message
SkipStep ==
  (wpc[Agent] = "batch" /\ ~ParseOk(Head(batch[Agent])))
    => \/ UNCHANGED vars
       \/ /\ wpc'[Agent] = NextPc(Tail(batch[Agent]))
          /\ batch'[Agent] = Tail(batch[Agent])
          /\ finished'[Agent] = finished[Agent] + 1
          /\ UNCHANGED <<work, publog, llmlog, respChan, costChan, consumer,
                         producer, polled>>
       \/ wpc'[Agent] = wpc[Agent]

\* C8: a message whose body is malformed is skipped and nothing else: the
\* thread does not end, the other messages of the batch stay to be
\* processed and are processed, and the loop reaches later polls.
C8_MalformedMessageSkipped ==
  /\ []NothingDropped
  /\ [][SkipStep /\ ExitsOnlyAtLoopEnd]_vars
  /\ (batch[Agent] # <<>>) ~> (batch[Agent] = <<>>)

\* C8 witness: the first message of a batch of two was malformed and
\* skipped, the second one was answered, and the thread is at a poll again.
C8_Witness ==
  /\ wpc[Agent] = "poll"
  /\ finished[Agent] >= 2
  /\ ~ParseOk(polled[Agent][1])
  /\ ParseOk(polled[Agent][2])
  /\ Entries("responses", polled[Agent][2].message_id) # {}

\* C9: a failure of the poll does not end the consume loop or the monitor
\* loop: a thread ends only when create_consumer failed or the while
\* condition found running false, and after a failed poll with running true
\* the thread backs off and is at a poll again unless running was cleared.
C9_PollFailureRetried ==
  /\ [][ExitsOnlyAtLoopEnd]_vars
  /\ [][(mon_pc' = "fatal" /\ mon_pc # "fatal")
          => (mon_pc = "create" \/ (mon_pc = "loop" /\ ~mon_running))]_vars
  /\ [][(wpc[Agent] = "poll" /\ running[Agent])
          => wpc'[Agent] \in {"poll", "batch", "loop", "backoff"}]_vars
  /\ [][(mon_pc = "poll" /\ mon_running)
          => mon_pc' \in {"poll", "batch", "loop", "backoff"}]_vars
  /\ (wpc[Agent] = "backoff") ~> (wpc[Agent] = "poll" \/ ~running[Agent])
  /\ (mon_pc = "backoff") ~> (mon_pc = "poll" \/ ~mon_running)

\* C9 witness: the poll of the worker and the poll of the monitor both
\* failed while running was true, and both threads are backing off.
C9_Witness ==
  /\ wpc[Agent] = "backoff" /\ running[Agent]
  /\ mon_pc = "backoff" /\ mon_running

\* C10: for every Reply a worker produced, the publish of the Reply and the
\* publish of the telemetry event derived from it are each attempted exactly
\* once, the Reply first, whatever the outcome of either publish.
C10_BothPublishesOnce ==
  /\ \A id \in AllIds :
       /\ Cardinality(Entries("responses", id)) <= 1
       /\ Cardinality(Entries("cost_monitor", id)) <= 1
  /\ \A i \in 1..Len(publog) :
       LET id == publog[i].message.message_id
       IN /\ publog[i].topic = "responses" =>
               \/ \E j \in Entries("cost_monitor", id) :
                    j > i /\ publog[j].message = cost_data(publog[i].message)
               \/ wpc[Agent] = "send_cost" /\ work[Agent].response = publog[i].message
          /\ publog[i].topic = "cost_monitor" =>
               \E j \in Entries("responses", id) : j < i
  /\ \A m \in Settled :
       ParseOk(m) => /\ Cardinality(Entries("responses", m.message_id)) = 1
                     /\ Cardinality(Entries("cost_monitor", m.message_id)) = 1

\* C10 witness: for one request the publish of the Reply failed and the
\* telemetry event was published; for another the Reply was published and
\* the publish of the telemetry event failed.
C10_Witness ==
  /\ \E m \in Settled :
       /\ ParseOk(m)
       /\ Entries("responses", m.message_id) # {}
       /\ PublishedOk("responses", m.message_id) = {}
       /\ PublishedOk("cost_monitor", m.message_id) # {}
  /\ \E m \in Settled :
       /\ ParseOk(m)
       /\ PublishedOk("responses", m.message_id) # {}
       /\ Entries("cost_monitor", m.message_id) # {}
       /\ PublishedOk("cost_monitor", m.message_id) = {}

(***************************************************************************)
(* Properties of the manager of the workers.                               *)
(***************************************************************************)
\* stop_all is over: it returned, or it ended with the exception of a stop()
StopAllOver == mgr_pc = "idle" /\ mgr_last \in {"stop_all", "stop_all_raised"}

\* C11 (as stated): once stop_all() was called and is over, every registered
\* worker has been given the stop signal, so that its loop ends at its next
\* loop check, and a worker whose loop has ended holds no open producer and
\* no consumer.
C11_StopAllReleasesEveryWorker ==
  StopAllOver =>
    \A k \in Registered :
      /\ ~running[k]
      /\ ThreadGone(k) => (~producer[k] /\ ~InDict(k))

\* C12: status() has one entry per registered key; when start_all() has
\* returned every entry is true, and when stop_all() has returned every
\* entry is false, until the next call of the manager.
C12_StatusAfterStartAndStop ==
  /\ Cardinality(Registered) = Len(consumers)
  /\ DOMAIN get_status = Registered
  /\ (mgr_pc = "idle" /\ mgr_last = "start_all") => \A k \in Registered : get_status[k]
  /\ (mgr_pc = "idle" /\ mgr_last = "stop_all") => \A k \in Registered : ~get_status[k]

\* C12 witness: both responders are registered, were started, and stop_all()
\* has returned.
C12_Witness ==
  /\ Registered = AgentTypes
  /\ mgr_pc = "idle" /\ mgr_last = "stop_all"
  /\ \A k \in AgentTypes : wpc[k] # "none"

(***************************************************************************)
(* Properties of the cost statistics.                                      *)
(***************************************************************************)
RECURSIVE SumCost(_)
\* the sum of the costs of a sequence of cost events
SumCost(events) ==
  IF events = <<>> THEN 0 ELSE EventCost(Head(events)) + SumCost(Tail(events))

\* the statistics that a sequence of events, each processed as a whole, gives
Accumulated(events) ==
  LET OfAgent(k) == LET Is(e) == EventAgent(e) = k IN SelectSeq(events, Is)
      OfModel(m) == LET Is(e) == EventModel(e) = m IN SelectSeq(events, Is)
  IN [total_cost |-> SumCost(events),
      total_messages |-> Len(events),
      cost_by_agent |->
        [k \in {EventAgent(events[i]) : i \in DOMAIN events} |-> SumCost(OfAgent(k))],
      cost_by_model |->
        [m \in {EventModel(events[i]) : i \in DOMAIN events} |-> SumCost(OfModel(m))]]

\* no event is inside _process_cost_info and no reset_statistics is under way
Quiet ==
  /\ mon_pc \notin ProcessPositions \ {"batch"}
  /\ api_pc \notin {"r_agent", "r_model", "r_count"}

\* reset_statistics has been called
ResetSeen ==
  \/ api_pc \in {"r_agent", "r_model", "r_count"}
  \/ \E i \in DOMAIN api_last : api_last[i] = "reset"

\* the events processed since the last reset: all of them when there was no
\* reset, otherwise the events from some point of the history on
SinceReset ==
  { SubSeq(evlog, first, Len(evlog)) :
      first \in IF ResetSeen THEN 1..(Len(evlog) + 1) ELSE {1} }

\* C13: whenever no event and no reset is in progress, the message count is
\* the number n of events processed since the last reset and the total cost
\* is the sum of their costs, each event counted once.
C13_TotalsOfProcessedEvents ==
  Quiet =>
    \E events \in SinceReset :
      /\ message_count = Len(events)
      /\ total_cost = SumCost(events)

\* C14: once reset_statistics has returned and no event is being processed,
\* the four accumulators are all zero or hold, all four, the same whole
\* events that landed after the reset: no event is split across the reset.
C14_ResetNeverSplitsAnEvent ==
  (Quiet /\ api_pc = "idle" /\ api_last # <<>> /\ api_last[Len(api_last)] = "reset") =>
    \E events \in SinceReset :
      /\ total_cost = Accumulated(events).total_cost
      /\ message_count = Accumulated(events).total_messages
      /\ cost_by_agent = Accumulated(events).cost_by_agent
      /\ cost_by_model = Accumulated(events).cost_by_model

\* C15: whenever no event and no reset is in progress, each mapping holds
\* exactly the keys of the events processed since the last reset, each with
\* the sum of the costs of the events of that key.
C15_PerKeySums ==
  Quiet =>
    \E events \in SinceReset :
      /\ cost_by_agent = Accumulated(events).cost_by_agent
      /\ cost_by_model = Accumulated(events).cost_by_model

\* C16: in a run without resets, the total cost, the count and the two
\* mappings of a dict returned by get_statistics are those of one and the
\* same number of fully processed events.
C16_SnapshotIsPointInTime ==
  (~ResetSeen /\ api_pc = "idle" /\ api_last # <<>>) =>
    \E n \in 0..Len(evlog) :
      LET point == Accumulated(SubSeq(evlog, 1, n))
      IN /\ stats.total_cost = point.total_cost
         /\ stats.total_messages = point.total_messages
         /\ stats.cost_by_agent = point.cost_by_agent
         /\ stats.cost_by_model = point.cost_by_model

\* C17: the step that ends the processing of an event with missing fields is
\* the store of the count, not an exception: it increases message_count by
\* exactly one, and both mappings then hold the event's key, "unknown" for a
\* missing identifier.
C17_IncompleteEventCounted ==
  [][(/\ mon_pc \in ProcessPositions \ {"batch"}
      /\ Head(mon_batch) \in IncompleteEvents
      /\ mon_batch' = Tail(mon_batch))
     => /\ mon_pc = "count_wr"
        /\ message_count' = message_count + 1
        /\ EventAgent(Head(mon_batch)) \in DOMAIN cost_by_agent'
        /\ EventModel(Head(mon_batch)) \in DOMAIN cost_by_model']_vars

C20_WaitEndsOnShutdown ==
  \A c \in Callers :
    (cli_down /\ shut_at[c] # NotWaiting /\ ask[c].pc \in {"waiting", "ready"})
      => ask[c].elapsed - shut_at[c] <= RecheckInterval

(***************************************************************************)
(* Termination of the long-lived loops after shutdown                      *)
(***************************************************************************)
\* the loop of _listen_responses has been left
ListenerExited == listener_pc = "exited"

\* C21: once the system is stopped, each worker loop, the loop of the cost
\* monitor and the loop of the response listener eventually terminate.
C21_LoopsExitAfterStop ==
  cli_down ~> (/\ ListenerExited
               /\ \A w \in AgentTypes : ThreadGone(w)
               /\ mon_pc \in {"none", "exited"})

(***************************************************************************)
(* Order of the publishes of one worker                                    *)
(***************************************************************************)
\* the ids of the messages worker w published to topic t, in publish order
PublishedIds(w, t) ==
  LET entries == SelectSeq(publog, LAMBDA e : e.by = w /\ e.topic = t /\ e.ok)
  IN [i \in 1..Len(entries) |-> entries[i].message.message_id]

\* the ids of the messages worker w polled, in poll order
PolledIds(w) == [i \in 1..Len(polled[w]) |-> polled[w][i].message_id]

RECURSIVE IsSubsequence(_, _)
IsSubsequence(a, b) ==
  IF a = <<>> THEN TRUE
  ELSE IF b = <<>> THEN FALSE
  ELSE IF Head(a) = Head(b) THEN IsSubsequence(Tail(a), Tail(b))
  ELSE IsSubsequence(a, Tail(b))

\* C22: the Replies one worker published, and the telemetry events it
\* published, are in the order in which the worker polled their requests.
C22_PublishesInPollOrder ==
  \A w \in AgentTypes :
    /\ IsSubsequence(PublishedIds(w, "responses"), PolledIds(w))
    /\ IsSubsequence(PublishedIds(w, "cost_monitor"), PolledIds(w))

\* two requests that came in one poll were both answered and both reported
C22_Witness ==
  /\ Len(PublishedIds(Agent, "responses")) >= 2
  /\ Len(PublishedIds(Agent, "cost_monitor")) >= 2
  /\ PublishedIds(Agent, "responses")[1] # PublishedIds(Agent, "responses")[2]

(***************************************************************************)
(* Properties of the router (producer.py)                                  *)
(***************************************************************************)
\* a direct call of send_message returns in this step
SendReturns == nextId' # nextId /\ sent' # sent

C23_Returned ==
  sent.result.success =>
    /\ sent.record.topic \in AgentTypes
    /\ sent.record.topic = (IF sent.result.language = "chinese"
                              THEN "chinese_teacher" ELSE "english_teacher")
    /\ sent.result.topic = sent.record.topic
    /\ sent.result.language = sent.record.value.language
    /\ sent.record.key = sent.result.message_id
    /\ sent.record.value.message_id = sent.record.key
    /\ sent.record.value.content = sent.content

\* C23: a successful send_message publishes the request on exactly one
\* topic, under a key that is its new id: the Chinese topic if the text was
\* classified Chinese and the English topic otherwise; the topic and the
\* language it returns are those of the publication.
C23_SendPublishesToOneChannel ==
  /\ []C23_Returned
  /\ [][SendReturns /\ sent'.result.success =>
          /\ sent'.record.key = nextId
          /\ nextId' > nextId
          /\ \E t \in AgentTypes :
               /\ t = sent'.record.topic
               /\ topic'[t] = Append(topic[t], sent'.record.value)
               /\ \A u \in AgentTypes \ {t} : topic'[u] = topic[u]]_vars

\* the second call published a text with an ideograph on the Chinese topic
C23_Witness ==
  /\ sent.result.success
  /\ sent.result.message_id = 2
  /\ sent.result.topic = "chinese_teacher"
  /\ _contains_chinese(sent.content)
  /\ topic["chinese_teacher"] # <<>>

\* the text has a character in U+4E00..U+9FFF
HasIdeograph(text) == \E i \in 1..Len(text) : text[i] \in 19968..40959
\* a text of ASCII characters
AsciiText(text) == text # <<>> /\ \A i \in 1..Len(text) : text[i] < 128
ChineseCodes == {"zh-cn", "zh-tw", "zh"}

\* C25: a text with at least one character in U+4E00..U+9FFF is classified
\* Chinese whether the detector is unavailable, reports a code that is not
\* Chinese, or raises; the call ends with a language in each case.
C25_IdeographMeansChinese ==
  (sent # NoSend /\ HasIdeograph(sent.content)) => sent.language = "chinese"

\* a text that ends with U+9FFF after an ASCII letter, with a detector that raised
C25_Witness ==
  /\ sent.content = <<72, 40959>>
  /\ sent.det = "raise"
  /\ sent.language = "chinese"

\* C26 (as stated): an ASCII text is classified English whatever the
\* detector answers.
C26_AsciiMeansEnglish ==
  (sent # NoSend /\ AsciiText(sent.content)) => sent.language = "english"

\* C26 (amended): an ASCII text is classified English when the detector is
\* unavailable, raises or reports a code other than zh-cn, zh-tw and zh,
\* and Chinese when the detector reports one of these three codes.
C26_AsciiFollowsDetector ==
  (sent # NoSend /\ AsciiText(sent.content)) =>
    sent.language = (IF sent.det \in ChineseCodes THEN "chinese" ELSE "english")

\* an ASCII text went to the English topic although the detector raised
C26_Witness ==
  /\ AsciiText(sent.content)
  /\ sent.det = "raise"
  /\ sent.result.topic = "english_teacher"

\* a call of ask_question leaves "idle" without a request being published
AskFailsToSend(c) == ask[c].pc = "idle" /\ ask'[c].pc # "idle" /\ topic' = topic

C27_FailureDict ==
  (sent # NoSend /\ ~sent.result.success) =>
    /\ sent.result.message_id = NoId
    /\ sent.result.topic = "none"
    /\ sent.result.language = "none"
    /\ sent.result.error \in ProducerOutcomes \ {"sent"}
    /\ sent.record = NoPublication

\* C27: when publishing the request fails, send_message returns the failure
\* dict (no success, no id, no topic, no language, the error) instead of
\* raising, and ask_question returns its send-failed result in the same
\* step, without waiting and without touching the table of responses.
C27_SendFailureIsAResult ==
  /\ []C27_FailureDict
  /\ [][(SendReturns /\ ~sent'.result.success) => topic' = topic]_vars
  /\ [][\A c \in Callers :
          AskFailsToSend(c) =>
            /\ ask'[c].pc = "done"
            /\ ask'[c].result = SendFailed
            /\ ask'[c].result.success = FALSE
            /\ responses' = responses
            /\ response_event' = response_event]_vars

\* both failures have happened: the direct call and the call through ask_question
C27_Witness ==
  /\ sent.result.error = "send_failed"
  /\ sent.record = NoPublication
  /\ ask[Console].pc = "done"
  /\ ask[Console].result = SendFailed

(***************************************************************************)
(* From the text of a question to the agent that answers it                *)
(***************************************************************************)
\* the requests with this id that worker w polled
RequestsOf(w, id) == {polled[w][i] : i \in {j \in 1..Len(polled[w]) :
                                               polled[w][j].message_id = id}}

\* a call of ask_question returns the Response of a worker
Resolved(c) == ask[c].pc = "done" /\ IsReply(ask[c].result)

\* the request was polled by one worker only, the one of the topic of its
\* language, and the Response names that worker
AnsweredByItsWorker(c) ==
  \E w \in AgentTypes :
    /\ RequestsOf(w, ask[c].message_id) # {}
    /\ \A v \in AgentTypes \ {w} : RequestsOf(v, ask[c].message_id) = {}
    /\ ask[c].result.agent_type = w
    /\ \A m \in RequestsOf(w, ask[c].message_id) :
         w = (IF m.language = "chinese" THEN "chinese_teacher" ELSE "english_teacher")

\* C24 (as stated): the Response that resolves a call comes from the worker of
\* the topic the request was routed to and from no other; an ASCII text is
\* answered by english_teacher and a text with an ideograph by chinese_teacher.
C24_TextDecidesAgent ==
  \A c \in Callers :
    Resolved(c) =>
      /\ AnsweredByItsWorker(c)
      /\ \A w \in AgentTypes : \A m \in RequestsOf(w, ask[c].message_id) :
           /\ HasIdeograph(m.content) => ask[c].result.agent_type = "chinese_teacher"
           /\ AsciiText(m.content) => ask[c].result.agent_type = "english_teacher"

\* C24 (amended): the Response that resolves a call comes from the worker of
\* the topic the request was routed to and from no other: chinese_teacher
\* when the text was classified Chinese, english_teacher otherwise.  A text
\* with an ideograph is never answered by english_teacher; an ASCII text is
\* answered by chinese_teacher only when it was classified Chinese.
C24_ClassificationDecidesAgent ==
  \A c \in Callers :
    Resolved(c) =>
      /\ AnsweredByItsWorker(c)
      /\ \A w \in AgentTypes : \A m \in RequestsOf(w, ask[c].message_id) :
           /\ HasIdeograph(m.content) => ask[c].result.agent_type = "chinese_teacher"
           /\ (AsciiText(m.content) /\ m.language = "english")
                => ask[c].result.agent_type = "english_teacher"

\* a question with an ideograph was answered by the Chinese agent
C24_Witness ==
  /\ Resolved(Console)
  /\ ask[Console].result.agent_type = "chinese_teacher"
  /\ ask[Console].result.success
  /\ \E m \in RequestsOf("chinese_teacher", ask[Console].message_id) :
       HasIdeograph(m.content)

(***************************************************************************)
(* Who writes the accumulators of the cost monitor                         *)
(***************************************************************************)
\* a step of _process_cost_info
ProcessStep ==
  mon_pc \in ProcessPositions /\ UNCHANGED <<api_pc, mon_running, mon_stopping>>
\* a step of reset_statistics
ResetStep ==
  /\ \/ api_pc = "idle" /\ api_pc' = "r_agent"
     \/ api_pc \in {"r_agent", "r_model", "r_count"} /\ api_pc' # api_pc
  /\ UNCHANGED <<mon_pc, mon_running, mon_stopping>>
\* a step of start(), of stop() or of get_statistics (print_summary calls
\* get_statistics and prints)
OtherCallStep ==
  \/ mon_running' # mon_running
  \/ mon_stopping' # mon_stopping
  \/ api_pc = "idle" /\ api_pc' = "s_count"
  \/ api_pc \in {"s_count", "s_avg_total", "s_avg_count", "s_agent", "s_model"}
       /\ api_pc' # api_pc

\* C28: total_cost, message_count, cost_by_agent and cost_by_model change
\* only in a step of _process_cost_info or of reset_statistics; start(),
\* stop() and get_statistics leave the four unchanged.
C28_OnlyProcessAndResetWrite ==
  [][/\ statVars' # statVars => (ProcessStep \/ ResetStep)
     /\ OtherCallStep => statVars' = statVars]_vars

\* the monitor was stopped and started again with its totals kept
C28_Witness ==
  /\ mon_running
  /\ mon_pc = "create"
  /\ total_cost > 0
  /\ message_count > 0
  /\ cost_by_agent # EmptyDict

(***************************************************************************)
(* start() of a worker and of the cost monitor while the flag is set       *)
(***************************************************************************)
\* a thread of worker w is created in this step
ThreadCreated(w) == wpc[w] # "create" /\ wpc'[w] = "create"
\* a thread of the cost monitor is created in this step
MonThreadCreated == mon_pc # "create" /\ mon_pc' = "create"

\* C29: while the running flag of a worker or of the cost monitor is set, no
\* step creates a thread for it: start() returns without a change.
C29_StartWhileRunningIsNoOp ==
  [][/\ \A w \in AgentTypes : running[w] => ~ThreadCreated(w)
     /\ mon_running => ~MonThreadCreated]_vars

\* both flags are set: the thread of the worker has ended after a failure to
\* create its consumer, the thread of the monitor is polling
C29_Witness ==
  /\ running[Agent]
  /\ wpc[Agent] = "exited"
  /\ mon_running
  /\ mon_pc = "poll"

(***************************************************************************)
(* The average of a dict returned by get_statistics                        *)
(***************************************************************************)
\* the last call that returned is a get_statistics: stats is its dict
SnapshotReturned ==
  api_pc = "idle" /\ api_last # <<>> /\ api_last[Len(api_last)] = "get"

\* C30: in a dict returned by get_statistics the average cost per message is
\* the total cost of the dict divided by its count when the count is at
\* least one, and 0 when the count is 0.
C30_AverageOfSnapshot ==
  SnapshotReturned =>
    LET average == stats.average_cost_per_message
    IN IF stats.total_messages >= 1
         THEN average[1] * stats.total_messages = stats.total_cost * average[2]
         ELSE average[1] = 0

(***************************************************************************)
(* The wake-up signal shared by the callers                                *)
(***************************************************************************)
\* C32: no caller sleeps over its own Reply: a call blocked in the wait has
\* no Reply for its id in the table and the signal is clear, whoever cleared
\* it or was woken by it; and a call that runs a pass of its loop while a
\* Reply for its id is in the table returns that Reply.
C32_NoLostWakeUp ==
  /\ [](\A c \in Callers :
          ask[c].pc = "waiting" =>
            ask[c].message_id \notin DOMAIN responses /\ ~response_event)
  /\ [][\A c \in Callers :
          /\ ask[c].pc = "ready"
          /\ ask'[c] # ask[c]
          /\ ask[c].message_id \in DOMAIN responses
          => /\ ask'[c].pc = "done"
             /\ ask'[c].result = responses[ask[c].message_id]
             /\ ask'[c].result.message_id = ask[c].message_id]_vars

\* a call was woken for its Reply, and before it ran another call began to
\* wait and cleared the signal; the Reply of the first is still in the table
C32_Witness ==
  \E c, d \in Callers :
    /\ c # d
    /\ ask[c].pc = "ready"
    /\ ask[c].message_id \in DOMAIN responses
    /\ ask[d].pc = "waiting"
    /\ ~response_event

(***************************************************************************)
(* The four accumulators against each other                                *)
(***************************************************************************)
RECURSIVE SumValues(_)
\* the sum of the values of a dict
SumValues(d) ==
  IF DOMAIN d = {} THEN 0
  ELSE LET k == CHOOSE x \in DOMAIN d : TRUE
       IN d[k] + SumValues([x \in DOMAIN d \ {k} |-> d[x]])

\* C38: whenever no event is inside _process_cost_info and no reset is under
\* way, total_cost is the sum of the values of cost_by_agent and the sum of
\* the values of cost_by_model, and message_count is the number of events
\* processed since the last reset.
C38_AccumulatorsAgree ==
  Quiet =>
    /\ total_cost = SumValues(cost_by_agent)
    /\ total_cost = SumValues(cost_by_model)
    /\ \E events \in SinceReset : message_count = Len(events)

\* the events of a sequence at the positions of a set, in their order
SubsequenceAt(seq, positions) ==
  [j \in 1..Cardinality(positions) |->
     seq[CHOOSE i \in positions : Cardinality({k \in positions : k <= i}) = j]]

\* C39: the processing of an event is all-or-nothing: whenever the monitor
\* thread is not inside an event, the four accumulators are those of some of
\* the events it was given, each of them applied to all four, while the
\* others changed none.
C39_EventsAllOrNothing ==
  mon_pc \notin ProcessPositions \ {"batch"} =>
    \E positions \in SUBSET (1..Len(evlog)) :
      LET whole == Accumulated(SubsequenceAt(evlog, positions))
      IN /\ total_cost = whole.total_cost
         /\ message_count = whole.total_messages
         /\ cost_by_agent = whole.cost_by_agent
         /\ cost_by_model = whole.cost_by_model

(***************************************************************************)
(* Properties of the worker threads                                        *)
(***************************************************************************)
\* the consumer threads of w that are alive
LiveLoops(w) == (IF ThreadGone(w) THEN 0 ELSE 1) + strays[w]

\* C33: at any time at most one consumer thread is alive per worker, for
\* every sequence of start() and stop() calls.
C33_OneLoopPerWorker ==
  \A w \in AgentTypes : LiveLoops(w) <= 1

\* C34: get_status reports a worker as running only while its consumer
\* thread is alive: after the thread has ended, on its own or not, the entry
\* of the worker is false.
C34_RunningOnlyWhileAlive ==
  \A k \in Registered : get_status[k] => wpc[k] # "exited"

\* C35: once stop_all() has returned, no worker publishes a Reply or a cost
\* event, and none hands one to the publish, until the next call of the
\* manager.
C35_NoPublishAfterStopAll ==
  [][(mgr_pc = "idle" /\ mgr_last = "stop_all" /\ mgr_pc' = "idle" /\ mgr_last' = "stop_all")
       => (publog' = publog /\ respChan' = respChan /\ costChan' = costChan)]_vars

\* C37: when stop_all() has returned, every consumer thread that start_all()
\* started has been given the stop signal and none is left running outside
\* the dict of the manager.
C37_StopAllStopsEveryStarted ==
  (mgr_pc = "idle" /\ mgr_last = "stop_all") =>
    \A k \in AgentTypes : strays[k] = 0 /\ ~running[k]

(***************************************************************************)
(* Properties of the release of the bus handles.                           *)
(***************************************************************************)
\* a step in which a close_all on the client of w ends without an exception:
\* the one of stop(), or the one of the finally block of the thread
CloseAllReturns(w) ==
  \/ scl[w] # "idle" /\ scl'[w] = "idle" /\ CloseNext(w, scl[w]) = "done"
  \/ /\ wpc[w] \in {"fatal", "prod_close", "cons_close", "cons_del"}
     /\ wpc'[w] = "exited"
     /\ CloseNext(w, FinallyPos(w)) = "done"

\* C31: when a close_all() on the client of a worker has returned, the client
\* holds no producer and no consumer, and the consumer it held was closed
\* exactly once.
C31_CloseAllReleasesOnce ==
  [][\A w \in AgentTypes :
       CloseAllReturns(w) =>
         /\ ~producer'[w]
         /\ consumer'[w] \notin {"open", "closing"}
         /\ closes'[w].consumer <= 1]_vars

\* C36: under every interleaving of stop() and of the finally block of the
\* thread, no consumer is closed twice and no close_all raises.
C36_NoDoubleCloseNoFailure ==
  \A w \in AgentTypes : closes[w].consumer <= 1 /\ ~closes[w].raised

====
